---------------------------- MODULE Spec2Model ----------------------------
(* A model of rag_system/processing/reasoning_engine.py                    *)
(* (UncertaintyAwareReasoningEngine): beam_search, the point-in-time query *)
(* held in the body of reason, and update_causal_strength.                 *)
(*                                                                         *)
(* Numbers: scores are counted in tenths (9 is 0.9); probabilities and     *)
(* strengths are exact rationals counted in units of 1/Scale, so the       *)
(* model's arithmetic is the real-number arithmetic of the formulas, not   *)
(* the binary floating point of the interpreter.                           *)
EXTENDS Integers, Sequences, FiniteSets, TLC

VARIABLES
    \* ---- beam_search (one invocation) ----
    bs_pc,        \* position in beam_search
    beam_width,   \* argument beam_width
    max_depth,    \* argument max_depth
    seeds,        \* what get_initial_entities returned
    beams,        \* local beams
    candidates,   \* local candidates
    depth,        \* completed iterations of `for _ in range(max_depth)`
    bi,           \* index of the current beam in `for beam in beams`
    nbrs,         \* local neighbors (of the current beam)
    ni,           \* index of the current neighbor in `for neighbor in neighbors`
    nbrArg,       \* the argument of the last get_neighbors call
    nbrCalls,     \* number of get_neighbors calls made
    scoreCalls,   \* number of llm.score_path calls made
    bs_result,    \* the returned list
    bs_err,       \* the exception that left beam_search, if any
    \* ---- reason (the point-in-time query) ----
    q_pc,         \* position in reason
    retrieved_info,      \* argument retrieved_info
    activated_knowledge, \* argument activated_knowledge, by its keys in order
    store,        \* the graph database: node -> timestamps of its versions
    nodeScore,    \* the full-text score of each node for the query
    q_timestamp,  \* the free name `timestamp` as bound when reason ran
    q_k,          \* the free name `k` as bound when reason ran
    q_result,     \* the returned list of RetrievalResult
    q_err,        \* the exception that left reason, if any
    \* ---- update_causal_strength ----
    causal_edges, \* self.causal_edges: key -> edge object
    lastObs,      \* the last update_causal_strength call and the table before it
    nObs,         \* number of update_causal_strength calls made
    \* ---- concurrent callers of update_causal_strength (event-loop tasks) ----
    tk_pc,        \* task -> "pending" or "done"
    tk_arg,       \* task -> the (key, observed_probability) it passes
    tk_before,    \* the table before any of the tasks ran
    \* ---- propagate_uncertainty (one call) ----
    p_pc,         \* "ready" or "done"
    p_in,         \* argument uncertainties
    p_out,        \* the returned value
    \* ---- reason_with_uncertainty (one invocation) ----
    rw_pc,        \* position in reason_with_uncertainty
    knowledge,    \* argument constructed_knowledge
    steps,        \* local steps (the plan)
    step_i,       \* index of the current step in `for step in steps`
    reasoning_steps, \* local reasoning_steps
    uncertainties,   \* local uncertainties
    detailed_steps,  \* local detailed_steps
    rw_result,    \* the returned (reasoning, overall_uncertainty, detailed_steps)
    rw_err,       \* the exception that left reason_with_uncertainty, if any
    \* ---- analyze_uncertainty_sources (one call) ----
    a_pc,         \* "called", "done" (analysis returned) or "suggested"
    a_steps,      \* argument detailed_steps
    a_sources,    \* the returned dict uncertainty_sources
    a_suggestions, \* what suggest_uncertainty_reduction returned for it
    \* ---- MessageQueue ----
    mq_queues,    \* self._queues: priority -> deque of messages
    mq_processed, \* self.stats['messages_processed']
    mq_by_priority, \* self.stats['messages_by_priority']
    last_processed, \* self.last_processed, a time
    mq_sent,      \* number of enqueue calls made (the messages are numbered by it)
    mq_ret,       \* the last call and what it returned
    \* ---- AdaptiveErrorController ----
    error_count,  \* self.error_count: exception type name -> count
    ec_handled,   \* handle_error calls per exception type since the last reset
    ec_resets,    \* number of reset calls made
    ec_ret,       \* the last call and what it returned
    \* ---- TaskExecutor.execute_task (one call and the calls it nests) ----
    te_pc,        \* "running" or "done"
    te_stack,     \* the execute_task calls in progress, the innermost last
    te_last,      \* the execute_task call that returned last, as it ended
    te_result     \* what the outermost call returned

beamVars == <<bs_pc, beam_width, max_depth, seeds, beams, candidates, depth, bi,
              nbrs, ni, nbrArg, nbrCalls, scoreCalls, bs_result, bs_err>>
queryVars == <<q_pc, retrieved_info, activated_knowledge, store, nodeScore,
               q_timestamp, q_k, q_result, q_err>>
causalVars == <<causal_edges, lastObs, nObs>>
taskVars == <<tk_pc, tk_arg, tk_before>>
propVars == <<p_pc, p_in, p_out>>
pipeVars == <<rw_pc, knowledge, steps, step_i, reasoning_steps, uncertainties,
              detailed_steps, rw_result, rw_err>>
attrVars == <<a_pc, a_steps, a_sources, a_suggestions>>
queueVars == <<mq_queues, mq_processed, mq_by_priority, last_processed, mq_sent,
               mq_ret>>
errVars == <<error_count, ec_handled, ec_resets, ec_ret>>
execVars == <<te_pc, te_stack, te_last, te_result>>
vars == <<beamVars, queryVars, causalVars, taskVars, propVars, pipeVars, attrVars,
          queueVars, errVars, execVars>>

\* What the operations of one component leave alone
notBeam == <<queryVars, causalVars, taskVars, propVars, pipeVars, attrVars,
             queueVars, errVars, execVars>>
notQuery == <<beamVars, causalVars, taskVars, propVars, pipeVars, attrVars,
             queueVars, errVars, execVars>>
notCausal == <<beamVars, queryVars, taskVars, propVars, pipeVars, attrVars,
             queueVars, errVars, execVars>>
notTask == <<beamVars, queryVars, lastObs, nObs, propVars, pipeVars, attrVars,
             queueVars, errVars, execVars>>
notProp == <<beamVars, queryVars, causalVars, taskVars, pipeVars, attrVars,
             queueVars, errVars, execVars>>
notPipe == <<beamVars, queryVars, causalVars, taskVars, propVars, attrVars,
             queueVars, errVars, execVars>>
notAttr == <<beamVars, queryVars, causalVars, taskVars, propVars, pipeVars,
             queueVars, errVars, execVars>>
notQueue == <<beamVars, queryVars, causalVars, taskVars, propVars, pipeVars, attrVars,
              errVars, execVars>>
notErr == <<beamVars, queryVars, causalVars, taskVars, propVars, pipeVars, attrVars,
            queueVars, execVars>>
notExec == <<beamVars, queryVars, causalVars, taskVars, propVars, pipeVars, attrVars,
             queueVars, errVars>>

\* ------------------------------------------------------------------------
\* Bounds of the model
\* ------------------------------------------------------------------------
MaxWidth == 2
MaxDepth == 2
NumScores == 4
MaxTime == 3
MaxVersions == 2
MaxK == 3
MaxObs == 2
MaxSteps == 3
MaxFacts == 2
MaxMessages == 3
MaxErrors == 5
MaxResets == 2
MaxNesting == 1
MaxSubgoals == 2

\* ------------------------------------------------------------------------
\* Helpers on sequences (Python list operations)
\* ------------------------------------------------------------------------
Last(s) == s[Len(s)]

\* s[:n]
Take(s, n) == SubSeq(s, 1, IF n < Len(s) THEN n ELSE Len(s))

\* ------------------------------------------------------------------------
\* beam_search
\* ------------------------------------------------------------------------
None == "None"
NoScore == -1

\* Scores llm.score_path may return, in tenths: 0.9, 0.8, ...
Scores == {10 - i : i \in 1..NumScores}

\* Lists get_initial_entities may return
SeedChoices == {<<>>, <<"X">>, <<"X", "Y">>}

\* Lists get_neighbors may return
NeighborChoices == {<<>>, <<"A">>, <<"A", "B">>}

\* A beam is a Python list of entities ([entity], line 75) or, after the
\* first pruning, a tuple (list, score) (lines 84, 86).
ListBeam(path) == [tuple |-> FALSE, path |-> path, score |-> NoScore]
TupleBeam(path, score) == [tuple |-> TRUE, path |-> path, score |-> score]

\* Mutant of InitialBeams: an empty seed list falls back to a default entity.
InitialBeamsDefaultSeed(entities) ==
    IF entities = <<>> THEN <<ListBeam(<<"X">>)>>
    ELSE [i \in 1..Len(entities) |-> ListBeam(<<entities[i]>>)]

\* beams = [[entity] for entity in initial_entities]
InitialBeams(entities) == [i \in 1..Len(entities) |-> ListBeam(<<entities[i]>>)]

\* beam[-1]: the last entity of a list, the score of a (path, score) tuple
BeamLast(beam) ==
    IF beam.tuple THEN [entity |-> None, score |-> beam.score]
                  ELSE [entity |-> Last(beam.path), score |-> NoScore]

\* beam + [neighbor] is defined for a list; tuple + list raises TypeError
CanExtend(beam) == ~beam.tuple

\* new_beam = beam + [neighbor]
Extend(beam, neighbor) == Append(beam.path, neighbor)

\* Mutant of InsertDesc: an unstable sort, c goes before its equals.
RECURSIVE InsertDescUnstable(_, _)
InsertDescUnstable(sorted, c) ==
    IF sorted = <<>> THEN <<c>>
    ELSE IF sorted[1].score > c.score
         THEN <<sorted[1]>> \o InsertDescUnstable(Tail(sorted), c)
         ELSE <<c>> \o sorted

\* One insertion of Python's stable sorted(..., key=lambda x: x[1],
\* reverse=True): c goes after every element whose score is >= its own.
RECURSIVE InsertDesc(_, _)
InsertDesc(sorted, c) ==
    IF sorted = <<>> THEN <<c>>
    ELSE IF sorted[1].score >= c.score
         THEN <<sorted[1]>> \o InsertDesc(Tail(sorted), c)
         ELSE <<c>> \o sorted

RECURSIVE SortedDesc(_)
SortedDesc(cands) ==
    IF cands = <<>> THEN <<>>
    ELSE InsertDesc(SortedDesc(SubSeq(cands, 1, Len(cands) - 1)), Last(cands))

\* sorted(candidates, key=lambda x: x[1], reverse=True)[:beam_width]
Prune(cands, width) == Take(SortedDesc(cands), width)

BeamInit ==
    /\ bs_pc = "start"
    /\ beam_width \in 1..MaxWidth
    /\ max_depth \in 0..MaxDepth
    /\ seeds = <<>>
    /\ beams = <<>>
    /\ candidates = <<>>
    /\ depth = 0
    /\ bi = 0
    /\ nbrs = <<>>
    /\ ni = 0
    /\ nbrArg = [entity |-> None, score |-> NoScore]
    /\ nbrCalls = 0
    /\ scoreCalls = 0
    /\ bs_result = <<>>
    /\ bs_err = None

\* line 74-75: initial_entities = await self.get_initial_entities(query)
GetInitialEntities ==
    /\ bs_pc = "start"
    /\ \E entities \in SeedChoices :
         /\ seeds' = entities
         /\ beams' = InitialBeams(entities)
    /\ bs_pc' = "loop"
    /\ UNCHANGED notBeam
    /\ UNCHANGED <<beam_width, max_depth, candidates, depth, bi, nbrs, ni, nbrArg,
                   nbrCalls, scoreCalls, bs_result, bs_err>>

\* line 77-78: the next iteration of `for _ in range(max_depth)` starts
BeginIteration ==
    /\ bs_pc = "loop"
    /\ depth < max_depth
    /\ candidates' = <<>>
    /\ bi' = 1
    /\ bs_pc' = "beam"
    /\ UNCHANGED notBeam
    /\ UNCHANGED <<beam_width, max_depth, seeds, beams, depth, nbrs, ni, nbrArg,
                   nbrCalls, scoreCalls, bs_result, bs_err>>

\* Mutant of GetNeighbors: a beam whose last entity has no neighbors is
\* kept among the candidates as it is.
GetNeighborsKeepingDeadEnd ==
    /\ bs_pc = "beam"
    /\ bi <= Len(beams)
    /\ nbrArg' = BeamLast(beams[bi])
    /\ nbrCalls' = nbrCalls + 1
    /\ \E returned \in NeighborChoices :
         /\ nbrs' = returned
         /\ IF returned = <<>>
            THEN /\ bi' = bi + 1 /\ ni' = 0 /\ bs_pc' = "beam"
                 /\ candidates' = Append(candidates, TupleBeam(beams[bi].path, beams[bi].score))
            ELSE /\ bi' = bi /\ ni' = 1 /\ bs_pc' = "neighbor"
                 /\ UNCHANGED candidates
    /\ UNCHANGED notBeam
    /\ UNCHANGED <<beam_width, max_depth, seeds, beams, depth,
                   scoreCalls, bs_result, bs_err>>

\* line 79-80: neighbors = await self.get_neighbors(beam[-1])
GetNeighbors ==
    /\ bs_pc = "beam"
    /\ bi <= Len(beams)
    /\ nbrArg' = BeamLast(beams[bi])
    /\ nbrCalls' = nbrCalls + 1
    /\ \E returned \in NeighborChoices :
         /\ nbrs' = returned
         /\ IF returned = <<>>
            THEN bi' = bi + 1 /\ ni' = 0 /\ bs_pc' = "beam"
            ELSE bi' = bi /\ ni' = 1 /\ bs_pc' = "neighbor"
    /\ UNCHANGED notBeam
    /\ UNCHANGED <<beam_width, max_depth, seeds, beams, candidates, depth,
                   scoreCalls, bs_result, bs_err>>

\* Mutant of NeighborsFails: the failure is caught and the beams found so
\* far are returned.
NeighborsFailsPartialResult ==
    /\ bs_pc = "beam"
    /\ bi <= Len(beams)
    /\ nbrArg' = BeamLast(beams[bi])
    /\ nbrCalls' = nbrCalls + 1
    /\ bs_pc' = "done"
    /\ bs_result' = beams
    /\ bs_err' = "StoreUnavailable"
    /\ UNCHANGED notBeam
    /\ UNCHANGED <<beam_width, max_depth, seeds, beams, candidates, depth, bi,
                   nbrs, ni, scoreCalls>>

\* line 80: the graph store fails or times out; nothing catches it
NeighborsFails ==
    /\ bs_pc = "beam"
    /\ bi <= Len(beams)
    /\ nbrArg' = BeamLast(beams[bi])
    /\ nbrCalls' = nbrCalls + 1
    /\ bs_pc' = "error"
    /\ bs_err' = "StoreUnavailable"
    /\ UNCHANGED notBeam
    /\ UNCHANGED <<beam_width, max_depth, seeds, beams, candidates, depth, bi,
                   nbrs, ni, scoreCalls, bs_result>>

\* Mutant of ScorePath: the candidate is put in front of the list, as when
\* the calls that complete last are merged first.
ScorePathPrepending ==
    /\ bs_pc = "neighbor"
    /\ CanExtend(beams[bi])
    /\ \E score \in Scores :
         candidates' = <<TupleBeam(Extend(beams[bi], nbrs[ni]), score)>> \o candidates
    /\ scoreCalls' = scoreCalls + 1
    /\ IF ni < Len(nbrs)
       THEN ni' = ni + 1 /\ bi' = bi /\ bs_pc' = "neighbor"
       ELSE ni' = 0 /\ bi' = bi + 1 /\ bs_pc' = "beam"
    /\ UNCHANGED notBeam
    /\ UNCHANGED <<beam_width, max_depth, seeds, beams, depth, nbrs, nbrArg,
                   nbrCalls, bs_result, bs_err>>

\* line 81-84: new_beam = beam + [neighbor]; score = await score_path(...);
\* candidates.append((new_beam, score))
ScorePath ==
    /\ bs_pc = "neighbor"
    /\ CanExtend(beams[bi])
    /\ \E score \in Scores :
         candidates' = Append(candidates, TupleBeam(Extend(beams[bi], nbrs[ni]), score))
    /\ scoreCalls' = scoreCalls + 1
    /\ IF ni < Len(nbrs)
       THEN ni' = ni + 1 /\ bi' = bi /\ bs_pc' = "neighbor"
       ELSE ni' = 0 /\ bi' = bi + 1 /\ bs_pc' = "beam"
    /\ UNCHANGED notBeam
    /\ UNCHANGED <<beam_width, max_depth, seeds, beams, depth, nbrs, nbrArg,
                   nbrCalls, bs_result, bs_err>>

\* line 83: the scorer fails or times out; nothing catches it
ScorerFails ==
    /\ bs_pc = "neighbor"
    /\ CanExtend(beams[bi])
    /\ scoreCalls' = scoreCalls + 1
    /\ bs_pc' = "error"
    /\ bs_err' = "ScoringTimeout"
    /\ UNCHANGED notBeam
    /\ UNCHANGED <<beam_width, max_depth, seeds, beams, candidates, depth, bi,
                   nbrs, ni, nbrArg, nbrCalls, bs_result>>

\* line 82: beam is a (path, score) tuple, so beam + [neighbor] raises TypeError
ExtendRaises ==
    /\ bs_pc = "neighbor"
    /\ ~CanExtend(beams[bi])
    /\ bs_pc' = "error"
    /\ bs_err' = "TypeError"
    /\ UNCHANGED notBeam
    /\ UNCHANGED <<beam_width, max_depth, seeds, beams, candidates, depth, bi,
                   nbrs, ni, nbrArg, nbrCalls, scoreCalls, bs_result>>

\* line 86: beams = sorted(candidates, ...)[:beam_width], ending the iteration
SortAndPrune ==
    /\ bs_pc = "beam"
    /\ bi > Len(beams)
    /\ beams' = Prune(candidates, beam_width)
    /\ depth' = depth + 1
    /\ bs_pc' = "loop"
    /\ UNCHANGED notBeam
    /\ UNCHANGED <<beam_width, max_depth, seeds, candidates, bi, nbrs, ni, nbrArg,
                   nbrCalls, scoreCalls, bs_result, bs_err>>

\* line 88: return beams
ReturnBeams ==
    /\ bs_pc = "loop"
    /\ depth >= max_depth
    /\ bs_result' = beams
    /\ bs_pc' = "done"
    /\ UNCHANGED notBeam
    /\ UNCHANGED <<beam_width, max_depth, seeds, beams, candidates, depth, bi,
                   nbrs, ni, nbrArg, nbrCalls, scoreCalls, bs_err>>

BeamNext ==
    \/ GetInitialEntities
    \/ BeginIteration
    \/ GetNeighbors
    \/ NeighborsFails
    \/ ScorePath
    \/ ScorerFails
    \/ ExtendRaises
    \/ SortAndPrune
    \/ ReturnBeams

\* ------------------------------------------------------------------------
\* Properties of beam_search
\* ------------------------------------------------------------------------
Min(a, b) == IF a < b THEN a ELSE b

\* The returned list is sorted by score, descending
SortedByScoreDesc(list) ==
    \A i \in 1..Len(list) : \A j \in i..Len(list) : list[i].score >= list[j].score

\* C1: beam_search returns at most beam_width (path, score) entries, every
\* returned path has at most max_depth + 1 entities, and the returned list is
\* sorted by score in descending order, for every beam_width >= 1 and every
\* max_depth >= 0, max_depth = 0 with more seeds than beam_width included.
C1_ResultBoundedAndSorted ==
    bs_pc = "done" =>
        /\ Len(bs_result) <= beam_width
        /\ \A i \in 1..Len(bs_result) :
             /\ bs_result[i].tuple
             /\ Len(bs_result[i].path) <= max_depth + 1
        /\ SortedByScoreDesc(bs_result)

\* The place a candidate takes in the descending order with ties kept in the
\* order of generation: one more than the number of candidates that go first.
CandRank(cands, i) ==
    1 + Cardinality({j \in 1..Len(cands) :
                        \/ cands[j].score > cands[i].score
                        \/ cands[j].score = cands[i].score /\ j < i})

\* C2: after each depth iteration the beam set is exactly the beam_width
\* highest-scoring candidates of that iteration, equal scores in the order
\* they were generated; and with beam_width 2, max_depth 1, seeds X, Y and
\* scores 0.9, 0.8, 0.7, 0.6 for (X,A), (X,B), (Y,A), (Y,B) the result is
\* [([X,A], 0.9), ([X,B], 0.8)].
C2_TopWidthStable ==
    /\ (bs_pc \in {"loop", "done"} /\ depth > 0) =>
          /\ Len(beams) = Min(beam_width, Len(candidates))
          /\ \A i \in 1..Len(candidates) :
               CandRank(candidates, i) <= beam_width =>
                   beams[CandRank(candidates, i)] = candidates[i]
    /\ ( /\ bs_pc = "done"
         /\ beam_width = 2
         /\ max_depth = 1
         /\ candidates = << TupleBeam(<<"X", "A">>, 9), TupleBeam(<<"X", "B">>, 8),
                            TupleBeam(<<"Y", "A">>, 7), TupleBeam(<<"Y", "B">>, 6) >> ) =>
          bs_result = << TupleBeam(<<"X", "A">>, 9), TupleBeam(<<"X", "B">>, 8) >>

C2_Witness ==
    /\ bs_pc = "done"
    /\ seeds = <<"X", "Y">>
    /\ beam_width = 2
    /\ max_depth = 1
    /\ candidates = << TupleBeam(<<"X", "A">>, 9), TupleBeam(<<"X", "B">>, 8),
                       TupleBeam(<<"Y", "A">>, 7), TupleBeam(<<"Y", "B">>, 6) >>
    /\ bs_result = << TupleBeam(<<"X", "A">>, 9), TupleBeam(<<"X", "B">>, 8) >>

\* C3: in every depth iteration, the later ones included, get_neighbors is
\* called with the last entity of the current beam's path, and the beam can
\* be extended by one neighbor (it is a path, not a (path, score) pair).
C3_NeighborsOfLastEntity ==
    /\ nbrCalls > 0 => nbrArg.entity # None
    /\ bs_pc = "neighbor" =>
          /\ nbrArg.entity = Last(beams[bi].path)
          /\ CanExtend(beams[bi])

\* C4: when every get_neighbors and score_path call returns, beam_search
\* ends by returning the final beam set after exactly max_depth iterations.
C4_ReturnsAfterMaxDepth ==
    (bs_pc \in {"done", "error"} /\ bs_err \notin {"StoreUnavailable", "ScoringTimeout"}) =>
        /\ bs_pc = "done"
        /\ depth = max_depth
        /\ bs_result = beams

\* C5: when get_initial_entities returns no entity, beam_search makes no
\* get_neighbors and no score_path call, raises nothing, and returns the
\* empty list, whatever beam_width and max_depth are.
C5_EmptySeedsEmptyResult ==
    (bs_pc # "start" /\ seeds = <<>>) =>
        /\ nbrCalls = 0
        /\ scoreCalls = 0
        /\ bs_pc \in {"loop", "beam", "done"}
        /\ bs_err = None
        /\ bs_pc = "done" => bs_result = <<>>

C5_Witness ==
    /\ bs_pc = "done"
    /\ seeds = <<>>
    /\ max_depth = MaxDepth
    /\ depth = max_depth
    /\ bs_result = <<>>

\* A step in which a score_path call was made and delivered no score
ScorerCallWithoutScore ==
    /\ bs_pc = "neighbor"
    /\ scoreCalls' = scoreCalls + 1
    /\ candidates' = candidates

\* C23: when a scorer call for a candidate path times out, the candidate is
\* left out of the candidates, the search goes on with the next neighbor or
\* beam (no second call for the same candidate) and does not fail.
C23_ScorerTimeoutExcludesCandidate ==
    [][ScorerCallWithoutScore =>
          /\ bs_pc' \in {"neighbor", "beam"}
          /\ bs_err' = None
          /\ <<bi', ni'>> # <<bi, ni>>]_vars

\* ------------------------------------------------------------------------
\* reason: the point-in-time query against the graph database
\* ------------------------------------------------------------------------
\* Nodes the full-text index matches for the query, and the scores it may
\* yield for them
Nodes == {"n1", "n2"}
IndexScores == {1, 2}

\* Timestamps of node versions (datetime values, by their order)
Times == 1..MaxTime

\* The versions of one node: version i was created at the i-th timestamp,
\* timestamps strictly increasing with the version number.
VersionHistories ==
    UNION { {h \in [1..n -> Times] : \A i \in 1..n : \A j \in 1..n : i < j => h[i] < h[j]}
            : n \in 0..MaxVersions }

\* RETURN id(node) as id, score, v.timestamp as timestamp, v.version as
\* version (content and uncertainty are carried along, opaque)
Row(node, i) ==
    [id |-> node, version |-> i, timestamp |-> store[node][i], score |-> nodeScore[node]]

\* timestamp = None, the timestamp omitted (the datetimes are 1..MaxTime)
NoTimestamp == 0

\* `if timestamp:` a datetime is always true, None is false
Truthy(timestamp) == timestamp # NoTimestamp

\* Mutant of Eligible: the WHERE clause compares the wrong way round.
EligibleAfter(row, timestamp) ==
    Truthy(timestamp) => row.timestamp >= timestamp

\* WHERE v.timestamp <= $timestamp (line 22); the query of the else branch
\* (lines 35-43) has no WHERE clause
Eligible(row, timestamp) ==
    Truthy(timestamp) => row.timestamp <= timestamp

\* MATCH (node)-[:VERSION]->(v:NodeVersion): the rows in the order the
\* database scans them, node by node in scanOrder
RECURSIVE VersionRows(_, _, _)
VersionRows(node, i, timestamp) ==
    IF i > Len(store[node]) THEN <<>>
    ELSE (IF Eligible(Row(node, i), timestamp) THEN <<Row(node, i)>> ELSE <<>>)
         \o VersionRows(node, i + 1, timestamp)

RECURSIVE MatchRows(_, _)
MatchRows(scanOrder, timestamp) ==
    IF scanOrder = <<>> THEN <<>>
    ELSE VersionRows(scanOrder[1], 1, timestamp) \o MatchRows(Tail(scanOrder), timestamp)

\* Mutant of RowBefore: the sort keys in the wrong order, score first.
RowBeforeScoreFirst(a, b) ==
    \/ a.score > b.score
    \/ a.score = b.score /\ a.timestamp > b.timestamp

\* ORDER BY v.timestamp DESC, score DESC: a strictly before b
RowBefore(a, b) ==
    \/ a.timestamp > b.timestamp
    \/ a.timestamp = b.timestamp /\ a.score > b.score

RECURSIVE InsertRow(_, _)
InsertRow(sorted, r) ==
    IF sorted = <<>> THEN <<r>>
    ELSE IF RowBefore(r, sorted[1])
         THEN <<r>> \o sorted
         ELSE <<sorted[1]>> \o InsertRow(Tail(sorted), r)

RECURSIVE OrderRows(_)
OrderRows(rows) ==
    IF rows = <<>> THEN <<>>
    ELSE InsertRow(OrderRows(SubSeq(rows, 1, Len(rows) - 1)), Last(rows))

\* ... ORDER BY v.timestamp DESC, score DESC LIMIT $k
RunQuery(scanOrder, timestamp, k) == Take(OrderRows(MatchRows(scanOrder, timestamp)), k)

\* Orders in which the database may scan the matched nodes
ScanOrders == {<<"n1", "n2">>, <<"n2", "n1">>}

\* The body of reason never reads retrieved_info or activated_knowledge:
\* here they are empty
QueryInit ==
    /\ q_pc = "ready"
    /\ retrieved_info = <<>>
    /\ activated_knowledge = <<>>
    /\ store \in [Nodes -> VersionHistories]
    /\ nodeScore \in [Nodes -> IndexScores]
    /\ q_timestamp = NoTimestamp
    /\ q_k = 0
    /\ q_result = <<>>
    /\ q_err = None

\* lines 15-58, run with the names `timestamp` and `k` of the body bound:
\* one of the two queries runs and its records are returned in order
Reason ==
    /\ q_pc = "ready"
    /\ \E timestamp \in Times \cup {NoTimestamp}, k \in 0..MaxK, scanOrder \in ScanOrders :
         /\ q_timestamp' = timestamp
         /\ q_k' = k
         /\ q_result' = RunQuery(scanOrder, timestamp, k)
    /\ q_pc' = "done"
    /\ UNCHANGED <<retrieved_info, activated_knowledge, store, nodeScore, q_err>>
    /\ UNCHANGED notQuery

\* line 16: `timestamp` (and `k`) are neither parameters of reason nor
\* names of the module; left unbound, reading them raises NameError
ReasonNameError ==
    /\ q_pc = "ready"
    /\ q_pc' = "error"
    /\ q_err' = "NameError"
    /\ UNCHANGED <<retrieved_info, activated_knowledge, store, nodeScore, q_timestamp,
                   q_k, q_result>>
    /\ UNCHANGED notQuery

\* lines 15, 17, 33: the driver cannot reach the database; nothing catches it
ReasonStoreFails ==
    /\ q_pc = "ready"
    /\ q_pc' = "error"
    /\ q_err' = "StoreUnavailable"
    /\ UNCHANGED <<retrieved_info, activated_knowledge, store, nodeScore, q_timestamp,
                   q_k, q_result>>
    /\ UNCHANGED notQuery

QueryNext ==
    \/ Reason
    \/ ReasonNameError
    \/ ReasonStoreFails

\* lines 48-58: what reason returns is a list, of RetrievalResult
ReasonReturnType == "list"

\* The arguments of a call of reason: up to four retrieved items, each with
\* its content, and up to six activated concepts
RetrievedItems == << [content |-> "e1"], [content |-> "e2"],
                     [content |-> "e3"], [content |-> "e4"] >>
ConceptKeys == <<"c1", "c2", "c3", "c4", "c5", "c6">>

\* reason called with arguments of every length, on a store in which every
\* node has one version
ReasonCallInit ==
    /\ q_pc = "ready"
    /\ retrieved_info \in {SubSeq(RetrievedItems, 1, n) : n \in 0..Len(RetrievedItems)}
    /\ activated_knowledge \in {SubSeq(ConceptKeys, 1, m) : m \in 0..Len(ConceptKeys)}
    /\ store \in [Nodes -> {h \in VersionHistories : Len(h) = 1}]
    /\ nodeScore \in [Nodes -> IndexScores]
    /\ q_timestamp = NoTimestamp
    /\ q_k = 0
    /\ q_result = <<>>
    /\ q_err = None

\* ------------------------------------------------------------------------
\* Properties of the point-in-time query
\* ------------------------------------------------------------------------
\* row is a version the store holds
IsStored(row) ==
    /\ row.id \in Nodes
    /\ row.version \in 1..Len(store[row.id])
    /\ row = Row(row.id, row.version)

\* C6: with a timestamp t given, every returned result is a stored node
\* version whose timestamp is <= t.
C6_NoVersionAfterTimestamp ==
    (q_pc = "done" /\ q_timestamp # NoTimestamp) =>
        \A i \in 1..Len(q_result) :
            /\ IsStored(q_result[i])
            /\ q_result[i].timestamp <= q_timestamp

C6_Witness ==
    /\ q_pc = "done"
    /\ q_timestamp # NoTimestamp
    /\ Len(q_result) >= 1
    /\ \E node \in Nodes : \E i \in 1..Len(store[node]) : store[node][i] > q_timestamp
    /\ \A i \in 1..Len(q_result) : q_result[i].timestamp <= q_timestamp

\* C7: the query returns at most k results, ordered by timestamp descending
\* and, among equal timestamps, by score descending, with and without a
\* timestamp.
C7_AtMostKOrdered ==
    q_pc = "done" =>
        /\ Len(q_result) <= q_k
        /\ \A i \in 1..Len(q_result) : \A j \in 1..Len(q_result) :
             i < j =>
                 \/ q_result[i].timestamp > q_result[j].timestamp
                 \/ /\ q_result[i].timestamp = q_result[j].timestamp
                    /\ q_result[i].score >= q_result[j].score

C7_Witness ==
    /\ q_pc = "done"
    /\ q_k = 2
    /\ Len(q_result) = 2
    /\ Len(store["n1"]) + Len(store["n2"]) > 2
    /\ q_result[1].timestamp = q_result[2].timestamp
    /\ q_result[1].score > q_result[2].score

\* C8: with the timestamp omitted, each node contributes only its latest
\* version: no two results are versions of one node, and every result is the
\* newest version of its node.
C8_LatestVersionOnly ==
    (q_pc = "done" /\ q_timestamp = NoTimestamp) =>
        /\ \A i \in 1..Len(q_result) : \A j \in 1..Len(q_result) :
             i # j => q_result[i].id # q_result[j].id
        /\ \A i \in 1..Len(q_result) :
             q_result[i].version = Len(store[q_result[i].id])

\* C22: reason returns a result object with conclusion, confidence and
\* uncertainty, whose supporting evidence is the first min(3, n) retrieved
\* items in their order and whose activated concepts are the first
\* min(5, m) keys of activated_knowledge.
C22_ReasonReturnsResultObject ==
    q_pc = "done" =>
        /\ ReasonReturnType = "dict"
        /\ {"conclusion", "confidence", "uncertainty"} \subseteq DOMAIN q_result
        /\ q_result.supporting_evidence =
              [i \in 1..Min(3, Len(retrieved_info)) |-> retrieved_info[i].content]
        /\ q_result.activated_concepts =
              [i \in 1..Min(5, Len(activated_knowledge)) |-> activated_knowledge[i]]

\* ------------------------------------------------------------------------
\* update_causal_strength
\* ------------------------------------------------------------------------
RECURSIVE Pow10(_)
Pow10(n) == IF n = 0 THEN 1 ELSE 10 * Pow10(n - 1)

\* Strengths and probabilities are counted in units of 1/Scale; Scale is
\* large enough for MaxObs updates to stay exact.
Scale == Pow10(MaxObs + 1)

\* Probabilities 0, 0.1, 0.5, 0.9 and 1
Probabilities == {t * Pow10(MaxObs) : t \in {0, 1, 5, 9, 10}}

\* (source, target) keys of self.causal_edges
CausalKeys == {<<"A", "B">>, <<"B", "A">>}

\* An edge object: the attribute strength, and the observation count of the
\* data model
Edge(strength, count) == [strength |-> strength, observationCount |-> count]

\* Tables self.causal_edges may hold when update_causal_strength is called
EdgeTables ==
    UNION { [keys -> {Edge(st, c) : st \in Probabilities, c \in {1, 2}}]
            : keys \in SUBSET CausalKeys }

\* learning_rate = 0.1, in tenths
LearningRate == 1

\* Mutant of Ema: (1 + learning_rate) in place of (1 - learning_rate).
EmaOvershoot(strength, observed_probability) ==
    ((10 + LearningRate) * strength + LearningRate * observed_probability) \div 10

\* (1 - learning_rate) * edge.strength + learning_rate * observed_probability
Ema(strength, observed_probability) ==
    ((10 - LearningRate) * strength + LearningRate * observed_probability) \div 10

\* edge = self.causal_edges.get((source, target)); `if edge:`
HasEdge(edges, key) == key \in DOMAIN edges

\* Mutant of UpdatedEdges: the pair is taken as unordered, the edge of the
\* opposite direction is updated with it.
UpdatedEdgesUnordered(edges, key, observed_probability) ==
    [k \in DOMAIN edges |->
        IF k = key \/ k = <<key[2], key[1]>>
        THEN [edges[k] EXCEPT !.strength = Ema(@, observed_probability)]
        ELSE edges[k]]

\* Mutant of UpdatedEdges: the strength that enters the average was read
\* before the other callers ran (a read kept across a suspension).
UpdatedEdgesStaleRead(edges, key, observed_probability) ==
    IF HasEdge(edges, key)
    THEN [edges EXCEPT ![key].strength =
              Ema((IF HasEdge(tk_before, key) THEN tk_before[key].strength ELSE @),
                  observed_probability)]
    ELSE edges

\* lines 61-64: the table after update_causal_strength(source, target, p)
UpdatedEdges(edges, key, observed_probability) ==
    IF HasEdge(edges, key)
    THEN [edges EXCEPT ![key].strength = Ema(@, observed_probability)]
    ELSE edges

CausalInit ==
    /\ causal_edges \in EdgeTables
    /\ lastObs = [key |-> <<"A", "B">>, p |-> 0, before |-> <<>>]
    /\ nObs = 0

\* update_causal_strength(source, target, observed_probability)
UpdateCausalStrength ==
    /\ nObs < MaxObs
    /\ \E key \in CausalKeys, observed_probability \in Probabilities :
         /\ causal_edges' = UpdatedEdges(causal_edges, key, observed_probability)
         /\ lastObs' = [key |-> key, p |-> observed_probability, before |-> causal_edges]
    /\ nObs' = nObs + 1
    /\ UNCHANGED notCausal

CausalNext == UpdateCausalStrength

\* ------------------------------------------------------------------------
\* Properties of update_causal_strength
\* ------------------------------------------------------------------------
\* C9: update_causal_strength(source, target, p) on a table without an edge
\* for (source, target) creates the edge with strength p and observation
\* count 1.
C9_CreatesEdgeOnFirstObservation ==
    (nObs > 0 /\ ~HasEdge(lastObs.before, lastObs.key)) =>
        /\ HasEdge(causal_edges, lastObs.key)
        /\ causal_edges[lastObs.key] = Edge(lastObs.p, 1)

\* C10: update_causal_strength(source, target, p) on an existing edge sets
\* its strength to 0.9 * strength + 0.1 * p and adds exactly 1 to its
\* observation count.
C10_EmaAndCount ==
    (nObs > 0 /\ HasEdge(lastObs.before, lastObs.key)) =>
        /\ HasEdge(causal_edges, lastObs.key)
        /\ 10 * causal_edges[lastObs.key].strength =
               9 * lastObs.before[lastObs.key].strength + lastObs.p
        /\ causal_edges[lastObs.key].observationCount =
               lastObs.before[lastObs.key].observationCount + 1

\* C30: update_causal_strength on key (s, t) leaves every edge with another
\* key as it was (strength and observationCount), removes no edge and adds
\* none for another key; the table is keyed by ordered pairs, one edge each.
C30_OnlyTheObservedEdgeChanges ==
    /\ [][nObs' = nObs + 1 =>
             /\ \A key \in DOMAIN causal_edges :
                    /\ HasEdge(causal_edges', key)
                    /\ key # lastObs'.key => causal_edges'[key] = causal_edges[key]
             /\ DOMAIN causal_edges' \subseteq DOMAIN causal_edges \cup {lastObs'.key}]_vars
    /\ [][causal_edges' # causal_edges => nObs' = nObs + 1]_vars
    /\ [](DOMAIN causal_edges \subseteq CausalKeys)

C30_Witness ==
    /\ nObs > 0
    /\ lastObs.key = <<"A", "B">>
    /\ DOMAIN causal_edges = {<<"A", "B">>, <<"B", "A">>}
    /\ causal_edges[<<"A", "B">>] # lastObs.before[<<"A", "B">>]
    /\ causal_edges[<<"B", "A">>] = lastObs.before[<<"B", "A">>]

\* C11: starting from strengths in [0,1], after any sequence of
\* update_causal_strength calls with observed probabilities in [0,1] every
\* edge strength is still in [0,1].
C11_StrengthInUnitInterval ==
    \A key \in DOMAIN causal_edges :
        /\ causal_edges[key].strength >= 0
        /\ causal_edges[key].strength <= Scale

C11_Witness ==
    /\ nObs = MaxObs
    /\ HasEdge(lastObs.before, lastObs.key)
    /\ causal_edges[lastObs.key].strength # lastObs.before[lastObs.key].strength
    /\ lastObs.p = Scale
    /\ causal_edges[lastObs.key].strength > 0
    /\ causal_edges[lastObs.key].strength <= Scale

\* ------------------------------------------------------------------------
\* Concurrent callers of update_causal_strength
\* ------------------------------------------------------------------------
\* The engine's concurrency is that of coroutines on one event loop (every
\* other operation of the class is `async def`, the callers gather tasks).
\* update_causal_strength is a plain method with no await in it: once a task
\* calls it, it runs to its end before any other task runs.
Tasks == 1..MaxObs

\* Probabilities 0, 0.5 and 1
TaskProbabilities == {t * Pow10(MaxObs) : t \in {0, 5, 10}}

\* Tables with observation counts left at 1
TaskTables == {t \in EdgeTables : \A key \in DOMAIN t : t[key].observationCount = 1}

TaskInit ==
    /\ tk_pc = [t \in Tasks |-> "pending"]
    /\ tk_arg \in [Tasks -> [key : CausalKeys, p : TaskProbabilities]]
    /\ causal_edges \in TaskTables
    /\ tk_before = causal_edges
    /\ lastObs = [key |-> <<"A", "B">>, p |-> 0, before |-> <<>>]
    /\ nObs = 0

\* The event loop runs one pending task: it calls
\* update_causal_strength(source, target, observed_probability), lines 60-64
TaskUpdateCausalStrength ==
    /\ \E t \in Tasks :
         /\ tk_pc[t] = "pending"
         /\ causal_edges' = UpdatedEdges(causal_edges, tk_arg[t].key, tk_arg[t].p)
         /\ tk_pc' = [tk_pc EXCEPT ![t] = "done"]
    /\ UNCHANGED <<tk_arg, tk_before>>
    /\ UNCHANGED notTask

TaskNext == TaskUpdateCausalStrength

\* The calls of the tasks applied one after another, in the order `order`,
\* each to the result of the one before: the EMA rule of the specification
RECURSIVE SerialResult(_, _, _)
SerialResult(table, order, n) ==
    IF n = 0 THEN table
    ELSE LET prev == SerialResult(table, order, n - 1)
             key == tk_arg[order[n]].key
         IN  IF key \in DOMAIN prev
             THEN [prev EXCEPT ![key].strength = (9 * @ + tk_arg[order[n]].p) \div 10]
             ELSE prev

SerialResults == {SerialResult(tk_before, order, MaxObs) : order \in Permutations(Tasks)}

AllTasksDone == \A t \in Tasks : tk_pc[t] = "done"

Abs(n) == IF n < 0 THEN -n ELSE n

RECURSIVE Gcd(_, _)
Gcd(a, b) == IF b = 0 THEN a ELSE Gcd(b, a % b)

\* n / d in lowest terms, d > 0
Lowest[n \in Int, d \in Nat] ==
    LET g == Gcd(Abs(n), d) IN [num |-> n \div g, den |-> d \div g]

\* n / d, d > 0
Frac(n, d) == Lowest[n, d]

\* a * b
FMul(a, b) == Frac(a.num * b.num, a.den * b.den)

\* a + b
FAdd(a, b) == Frac(a.num * b.den + b.num * a.den, a.den * b.den)

\* 1 - a
FOneMinus(a) == Frac(a.den - a.num, a.den)

\* a / b, b > 0
FDiv(a, b) == Frac(a.num * b.den, a.den * b.num)

Zero == Frac(0, 1)
One == Frac(1, 1)

\* ------------------------------------------------------------------------
\* propagate_uncertainty
\* ------------------------------------------------------------------------
\* Mutant of StepProduct: `=` in place of `*=`, the running product is
\* overwritten.
StepProductOverwrite(propagated, step_uncertainty) == FOneMinus(step_uncertainty)

\* line 168: propagated_uncertainty *= (1 - step_uncertainty)
StepProduct(propagated, step_uncertainty) ==
    FMul(propagated, FOneMinus(step_uncertainty))

\* lines 166-168: propagated_uncertainty = 1.0, then the loop over
\* uncertainties from first to last
RECURSIVE Propagated(_)
Propagated(us) ==
    IF us = <<>> THEN One
    ELSE StepProduct(Propagated(SubSeq(us, 1, Len(us) - 1)), Last(us))

\* Mutant of PropagateUncertainty: the product is returned, not its complement.
PropagateNoComplement(us) == Propagated(us)

\* line 170: return 1 - propagated_uncertainty
PropagateUncertainty(us) == FOneMinus(Propagated(us))

\* Step uncertainties 0, 0.1, ..., 1
Tenths == {Frac(t, 10) : t \in 0..10}

\* Lists of at most MaxSteps uncertainties
UncertaintyLists == UNION {[1..n -> Tenths] : n \in 0..MaxSteps}

PropInit ==
    /\ p_pc = "ready"
    /\ p_in \in UncertaintyLists
    /\ p_out = Zero

\* propagate_uncertainty(reasoning_steps, uncertainties), lines 153-170
CallPropagateUncertainty ==
    /\ p_pc = "ready"
    /\ p_out' = PropagateUncertainty(p_in)
    /\ p_pc' = "done"
    /\ UNCHANGED p_in
    /\ UNCHANGED notProp

PropNext == CallPropagateUncertainty

Reordered(us, perm) == [i \in 1..Len(us) |-> us[perm[i]]]

INTERPRET == "interpret_query"
ANALYZE == "analyze_knowledge"
SYNTHESIZE == "synthesize_answer"

\* A step type _estimate_uncertainty does not know
UNKNOWN_TYPE == "other_step"

\* Uncertainties the relevant_facts of a payload may carry: 0, 0.5, 1, 1.5
FactUncertainties == {Frac(0, 1), Frac(1, 2), Frac(1, 1), Frac(3, 2)}

\* A step content: ok says that it is a dict whose relevant_facts, if any,
\* each carry 'uncertainty'; hasFacts that the key relevant_facts is there;
\* facts are the uncertainties of the relevant_facts, in order.
Content(ok, hasFacts, facts) == [ok |-> ok, hasFacts |-> hasFacts, facts |-> facts]

\* {} (line 248); the query string of line 246 is never read as a dict
EmptyContent == Content(TRUE, FALSE, <<>>)

\* A payload that is no dict, or holds a fact without 'uncertainty'
MalformedContent == Content(FALSE, FALSE, <<>>)

\* Values of constructed_knowledge
KnowledgeChoices ==
    {EmptyContent, MalformedContent}
        \cup {Content(TRUE, TRUE, facts) :
                 facts \in UNION {[1..n -> FactUncertainties] : n \in 0..MaxFacts}}

Step(type, content) == [type |-> type, content |-> content]

\* lines 245-250: the plan, whatever the query and the knowledge
GenerateReasoningSteps(constructed_knowledge) ==
    << Step(INTERPRET, EmptyContent),
       Step(ANALYZE, constructed_knowledge),
       Step(SYNTHESIZE, EmptyContent) >>

\* sum(values)
RECURSIVE SumOf(_)
SumOf(values) ==
    IF values = <<>> THEN Zero
    ELSE FAdd(SumOf(SubSeq(values, 1, Len(values) - 1)), Last(values))

\* np.mean(values), values not empty
Mean(values) == FDiv(SumOf(values), Frac(Len(values), 1))

\* line 134: step['content'].get('relevant_facts', []) and the 'uncertainty'
\* of each item raise when the content is malformed
EstimateRaises(step) == step.type = ANALYZE /\ ~step.content.ok

\* Mutant of EstimateUncertainty: an unknown type gets the default 0.5.
EstimateUncertaintyLenient(step) ==
    IF step.type = INTERPRET THEN Frac(1, 10)
    ELSE IF step.type = ANALYZE
         THEN (IF step.content.facts # <<>> THEN Mean(step.content.facts) ELSE Frac(1, 2))
    ELSE IF step.type = SYNTHESIZE THEN Frac(2, 10)
    ELSE Frac(1, 2)

\* Mutant of EstimateUncertainty: no relevant_facts gives 0, not 0.5.
EstimateUncertaintyNoDefault(step) ==
    IF step.type = INTERPRET THEN Frac(1, 10)
    ELSE IF step.type = ANALYZE
         THEN (IF step.content.facts # <<>> THEN Mean(step.content.facts) ELSE Zero)
    ELSE IF step.type = SYNTHESIZE THEN Frac(2, 10)
    ELSE One

\* lines 130-141: _estimate_uncertainty(step)
EstimateUncertainty(step) ==
    IF step.type = INTERPRET THEN Frac(1, 10)
    ELSE IF step.type = ANALYZE
         THEN (IF step.content.facts # <<>> THEN Mean(step.content.facts) ELSE Frac(1, 2))
    ELSE IF step.type = SYNTHESIZE THEN Frac(2, 10)
    ELSE One

\* line 260: f"Executed step: {step['type']}", the text as its pieces
StepResult(step) == <<"Executed step: ", step.type>>

\* Mutant of DetailedStep: the entry is filed under the result text.
DetailedStepMistyped(step, step_result, step_uncertainty) ==
    [type |-> "Executed step: ", result |-> step_result, uncertainty |-> step_uncertainty]

\* lines 191-195: the entry appended to detailed_steps
DetailedStep(step, step_result, step_uncertainty) ==
    [type |-> step.type, result |-> step_result, uncertainty |-> step_uncertainty]

\* Mutant of NextStep: every second step is skipped.
NextStepSkipping(i) == i + 2

\* line 187: `for step in steps` moves to the next step
NextStep(i) == i + 1

\* line 150: "\n".join(steps), the text as its pieces
RECURSIVE CombineReasoningSteps(_)
CombineReasoningSteps(results) ==
    IF results = <<>> THEN <<>>
    ELSE IF Len(results) = 1 THEN results[1]
    ELSE results[1] \o <<"\n">> \o CombineReasoningSteps(Tail(results))

\* Mutant of OverallUncertainty: the last step's uncertainty is left out.
OverallUncertaintyButLast(results, us) ==
    PropagateUncertainty(SubSeq(us, 1, Len(us) - 1))

\* line 197: self.propagate_uncertainty(reasoning_steps, uncertainties)
OverallUncertainty(results, us) == PropagateUncertainty(us)

NotReturned == [returned |-> FALSE, reasoning |-> <<>>, overall |-> Zero, detailed |-> <<>>]

PipeInit ==
    /\ rw_pc = "planning"
    /\ knowledge \in KnowledgeChoices
    /\ steps = <<>>
    /\ step_i = 0
    /\ reasoning_steps = <<>>
    /\ uncertainties = <<>>
    /\ detailed_steps = <<>>
    /\ rw_result = NotReturned
    /\ rw_err = None

\* lines 181-185: the lists are emptied and the plan is generated
Plan ==
    /\ rw_pc = "planning"
    /\ steps' = GenerateReasoningSteps(knowledge)
    /\ step_i' = 1
    /\ rw_pc' = "executing"
    /\ UNCHANGED <<knowledge, reasoning_steps, uncertainties, detailed_steps,
                   rw_result, rw_err>>
    /\ UNCHANGED notPipe

\* lines 188-195: one step is executed and its result, uncertainty and
\* detailed entry are appended
ExecuteStep ==
    /\ rw_pc = "executing"
    /\ step_i <= Len(steps)
    /\ ~EstimateRaises(steps[step_i])
    /\ LET step == steps[step_i]
           step_result == StepResult(step)
           step_uncertainty == EstimateUncertainty(step)
       IN  /\ reasoning_steps' = Append(reasoning_steps, step_result)
           /\ uncertainties' = Append(uncertainties, step_uncertainty)
           /\ detailed_steps' =
                  Append(detailed_steps, DetailedStep(step, step_result, step_uncertainty))
    /\ step_i' = NextStep(step_i)
    /\ UNCHANGED <<rw_pc, knowledge, steps, rw_result, rw_err>>
    /\ UNCHANGED notPipe

\* line 188: the step raises (AttributeError, KeyError, TypeError of line
\* 134); nothing in reason_with_uncertainty catches it
StepRaises ==
    /\ rw_pc = "executing"
    /\ step_i <= Len(steps)
    /\ EstimateRaises(steps[step_i])
    /\ rw_pc' = "error"
    /\ rw_err' = "StepError"
    /\ UNCHANGED <<knowledge, steps, step_i, reasoning_steps, uncertainties,
                   detailed_steps, rw_result>>
    /\ UNCHANGED notPipe

\* line 187: the loop has run over every step
EndOfSteps ==
    /\ rw_pc = "executing"
    /\ step_i > Len(steps)
    /\ rw_pc' = "combining"
    /\ UNCHANGED <<knowledge, steps, step_i, reasoning_steps, uncertainties,
                   detailed_steps, rw_result, rw_err>>
    /\ UNCHANGED notPipe

\* lines 197-200: the uncertainties are combined, the results joined, and
\* (reasoning, overall_uncertainty, detailed_steps) is returned
Combine ==
    /\ rw_pc = "combining"
    /\ rw_result' = [returned |-> TRUE,
                     reasoning |-> CombineReasoningSteps(reasoning_steps),
                     overall |-> OverallUncertainty(reasoning_steps, uncertainties),
                     detailed |-> detailed_steps]
    /\ rw_pc' = "done"
    /\ UNCHANGED <<knowledge, steps, step_i, reasoning_steps, uncertainties,
                   detailed_steps, rw_err>>
    /\ UNCHANGED notPipe

PipeNext ==
    \/ Plan
    \/ ExecuteStep
    \/ StepRaises
    \/ EndOfSteps
    \/ Combine

\* The loop of lines 187-200 over any list of steps: the types a plan may
\* hold, the unknown one included
StepTypes == {INTERPRET, ANALYZE, SYNTHESIZE, UNKNOWN_TYPE}

StepLists(constructed_knowledge) ==
    UNION { {[i \in 1..n |-> Step(types[i], IF types[i] = ANALYZE
                                           THEN constructed_knowledge
                                           ELSE EmptyContent)]
                : types \in [1..n -> StepTypes]}
            : n \in 0..MaxSteps }

StepListInit ==
    /\ rw_pc = "executing"
    /\ knowledge \in KnowledgeChoices
    /\ steps \in StepLists(knowledge)
    /\ step_i = 1
    /\ reasoning_steps = <<>>
    /\ uncertainties = <<>>
    /\ detailed_steps = <<>>
    /\ rw_result = NotReturned
    /\ rw_err = None

StepListNext ==
    \/ ExecuteStep
    \/ StepRaises
    \/ EndOfSteps
    \/ Combine

\* ------------------------------------------------------------------------
\* Properties of reason_with_uncertainty
\* ------------------------------------------------------------------------
\* The product of (1 - u) over the uncertainties u of the entries
RECURSIVE ComplementProduct(_)
ComplementProduct(entries) ==
    IF entries = <<>> THEN One
    ELSE FMul(FOneMinus(entries[1].uncertainty), ComplementProduct(Tail(entries)))

UncertaintiesOf(entries) == [j \in 1..Len(entries) |-> entries[j].uncertainty]

TypesOf(entries) == [j \in 1..Len(entries) |-> entries[j].type]

DefaultPlanTypes == <<INTERPRET, ANALYZE, SYNTHESIZE>>

C16_PlanExecuteCombineDone ==
    /\ [][ \/ rw_pc = "planning" /\ rw_pc' = "executing"
           \/ rw_pc = "executing" /\ rw_pc' \in {"executing", "combining", "error"}
           \/ rw_pc = "combining" /\ rw_pc' = "done" ]_vars
    /\ [](rw_pc = "executing" => Len(detailed_steps) = step_i - 1)
    /\ [](rw_pc = "combining" => Len(detailed_steps) = Len(steps))
    /\ [](rw_pc = "done" =>
            /\ rw_result.returned
            /\ rw_err = None
            /\ Len(rw_result.detailed) = Len(steps)
            /\ Len(rw_result.reasoning) = 3 * Len(steps) - 1)
    /\ [](rw_pc = "error" =>
            /\ ~rw_result.returned
            /\ rw_err # None
            /\ EstimateRaises(steps[step_i]))
    /\ <>(rw_pc \in {"done", "error"})

C16_Witness ==
    /\ rw_pc = "done"
    /\ rw_result.returned
    /\ Len(rw_result.detailed) = 3
    /\ Len(rw_result.reasoning) = 8

\* C17: the steps run in plan order, each once and one after the other; the
\* detailed steps hold one entry per plan step, in plan order, of the plan
\* step's type; the plan is interpret_query, analyze_knowledge,
\* synthesize_answer.
C17_StepsInPlanOrder ==
    /\ rw_pc # "planning" => TypesOf(steps) = DefaultPlanTypes
    /\ Len(reasoning_steps) = Len(detailed_steps)
    /\ Len(uncertainties) = Len(detailed_steps)
    /\ rw_pc = "executing" => Len(detailed_steps) = step_i - 1
    /\ Len(detailed_steps) <= Len(steps)
    /\ \A j \in 1..Len(detailed_steps) : detailed_steps[j].type = steps[j].type
    /\ rw_pc = "done" => TypesOf(rw_result.detailed) = TypesOf(steps)

C17_Witness ==
    /\ rw_pc = "done"
    /\ knowledge.facts # <<>>
    /\ TypesOf(rw_result.detailed) = DefaultPlanTypes

\* C18: the uncertainty of an executed step is 0.1 for interpret_query, 0.2
\* for synthesize_answer, and for analyze_knowledge the arithmetic mean of
\* the uncertainties of the payload's relevant_facts, 0.5 when there are
\* none (the key missing, or the list empty).
C18_EstimateByTypeAndPayload ==
    \A j \in 1..Len(detailed_steps) :
        LET entry == detailed_steps[j]
            facts == steps[j].content.facts
        IN  /\ entry.type = INTERPRET => entry.uncertainty = Frac(1, 10)
            /\ entry.type = SYNTHESIZE => entry.uncertainty = Frac(2, 10)
            /\ (entry.type = ANALYZE /\ (~steps[j].content.hasFacts \/ facts = <<>>)) =>
                   entry.uncertainty = Frac(5, 10)
            /\ (entry.type = ANALYZE /\ facts # <<>>) =>
                   FMul(entry.uncertainty, Frac(Len(facts), 1)) = SumOf(facts)

C18_Witness ==
    /\ rw_pc = "done"
    /\ knowledge = Content(TRUE, TRUE, <<Frac(1, 2), Frac(1, 1)>>)
    /\ UncertaintiesOf(rw_result.detailed) = <<Frac(1, 10), Frac(3, 4), Frac(2, 10)>>

KnownTypes == {INTERPRET, ANALYZE, SYNTHESIZE}

\* C19: a step of an unknown type does not raise: it is executed like the
\* others, gets uncertainty exactly 1, and a trace that holds one is
\* returned with overall uncertainty 1.
C19_UnknownStepTypeMaximal ==
    /\ \A j \in 1..Len(detailed_steps) :
           detailed_steps[j].type \notin KnownTypes =>
               /\ detailed_steps[j].uncertainty = One
               /\ detailed_steps[j].result = StepResult(steps[j])
    /\ (rw_pc = "executing" /\ step_i <= Len(steps) /\ steps[step_i].type \notin KnownTypes) =>
           ENABLED ExecuteStep
    /\ rw_pc = "error" => steps[step_i].type \in KnownTypes
    /\ (rw_pc = "done" /\ \E j \in 1..Len(steps) : steps[j].type \notin KnownTypes) =>
           /\ Len(rw_result.detailed) = Len(steps)
           /\ rw_result.overall = One

C19_Witness ==
    /\ rw_pc = "done"
    /\ TypesOf(steps) = <<INTERPRET, UNKNOWN_TYPE, SYNTHESIZE>>
    /\ UncertaintiesOf(rw_result.detailed) = <<Frac(1, 10), One, Frac(2, 10)>>
    /\ rw_result.overall = One

\* ------------------------------------------------------------------------
\* analyze_uncertainty_sources
\* ------------------------------------------------------------------------
\* A dict is the sequence of its items in insertion order: assigning to a key
\* it holds replaces the value in place, assigning to a new key appends.
HasKey(dict, key) == \E j \in 1..Len(dict) : dict[j].type = key

SetItem(dict, key, value) ==
    IF HasKey(dict, key)
    THEN [j \in 1..Len(dict) |->
             IF dict[j].type = key THEN [type |-> key, contribution |-> value]
             ELSE dict[j]]
    ELSE Append(dict, [type |-> key, contribution |-> value])

\* line 210: sum(step['uncertainty'] for step in detailed_steps)
TotalUncertainty(detailed) ==
    SumOf([j \in 1..Len(detailed) |-> detailed[j].uncertainty])

\* line 213: step['uncertainty'] / total_uncertainty if total_uncertainty > 0 else 0
Contribution(step, total_uncertainty) ==
    IF total_uncertainty.num > 0 THEN FDiv(step.uncertainty, total_uncertainty)
    ELSE Zero

\* dict[key] = dict.get(key, 0) + value
AddItem(dict, key, value) ==
    IF HasKey(dict, key)
    THEN [j \in 1..Len(dict) |->
             IF dict[j].type = key
             THEN [type |-> key, contribution |-> FAdd(dict[j].contribution, value)]
             ELSE dict[j]]
    ELSE Append(dict, [type |-> key, contribution |-> value])

\* Mutant of Attributed: the contributions of the steps of one type are
\* added up, not assigned.
RECURSIVE AttributedSummed(_, _)
AttributedSummed(detailed, total_uncertainty) ==
    IF detailed = <<>> THEN <<>>
    ELSE AddItem(AttributedSummed(SubSeq(detailed, 1, Len(detailed) - 1), total_uncertainty),
                 Last(detailed).type,
                 Contribution(Last(detailed), total_uncertainty))

\* lines 212-214: the loop over detailed_steps, first to last, with
\* uncertainty_sources[step['type']] = contribution
RECURSIVE Attributed(_, _)
Attributed(detailed, total_uncertainty) ==
    IF detailed = <<>> THEN <<>>
    ELSE SetItem(Attributed(SubSeq(detailed, 1, Len(detailed) - 1), total_uncertainty),
                 Last(detailed).type,
                 Contribution(Last(detailed), total_uncertainty))

\* lines 209-216
AnalyzeUncertaintySources(detailed) == Attributed(detailed, TotalUncertainty(detailed))

\* Uncertainties of the steps handed to the analysis
AttrUncertainties == {Zero, Frac(1, 2), One}

\* Lists of at most MaxSteps executed steps, of any types
DetailedStepLists ==
    UNION { [1..n -> {DetailedStep(Step(type, EmptyContent),
                                   StepResult(Step(type, EmptyContent)), u)
                         : type \in StepTypes, u \in AttrUncertainties}]
            : n \in 0..MaxSteps }

AttrInit ==
    /\ a_pc = "called"
    /\ a_steps \in DetailedStepLists
    /\ a_sources = <<>>
    /\ a_suggestions = <<>>

CallAnalyzeUncertaintySources ==
    /\ a_pc = "called"
    /\ a_sources' = AnalyzeUncertaintySources(a_steps)
    /\ a_pc' = "done"
    /\ UNCHANGED <<a_steps, a_suggestions>>
    /\ UNCHANGED notAttr

\* analyze_uncertainty_sources(detailed_steps) on the trace that
\* reason_with_uncertainty returned
AnalyzeTrace ==
    /\ rw_pc = "done"
    /\ a_pc = "idle"
    /\ a_steps' = rw_result.detailed
    /\ a_sources' = AnalyzeUncertaintySources(rw_result.detailed)
    /\ a_pc' = "done"
    /\ UNCHANGED a_suggestions
    /\ UNCHANGED notAttr

TraceNext ==
    \/ StepListNext
    \/ AnalyzeTrace

\* ------------------------------------------------------------------------
\* suggest_uncertainty_reduction
\* ------------------------------------------------------------------------
\* a < b
FLess(a, b) == a.num * b.den < b.num * a.den

\* Mutant of ItemBefore: reverse=True forgotten, the sort is ascending.
ItemBeforeAscending(x, y) == FLess(x.contribution, y.contribution)

\* line 226: key=lambda x: x[1], reverse=True: x goes before y when its
\* contribution is the greater one
ItemBefore(x, y) == FLess(y.contribution, x.contribution)

\* sorted is stable: an item goes behind the items it does not go before
RECURSIVE InsertItem(_, _)
InsertItem(sorted, item) ==
    IF sorted = <<>> THEN <<item>>
    ELSE IF ItemBefore(item, Head(sorted)) THEN <<item>> \o sorted
    ELSE <<Head(sorted)>> \o InsertItem(Tail(sorted), item)

\* line 226: sorted(uncertainty_sources.items(), key=..., reverse=True)
RECURSIVE SortedItems(_)
SortedItems(dict) ==
    IF dict = <<>> THEN <<>>
    ELSE InsertItem(SortedItems(SubSeq(dict, 1, Len(dict) - 1)), Last(dict))

\* lines 227-232: the text appended for a source, <<>> when there is none
Suggestion(source) ==
    IF source = INTERPRET THEN <<"Clarify the query to reduce ambiguity.">>
    ELSE IF source = ANALYZE
         THEN <<"Gather more relevant information to improve knowledge base.">>
    ELSE IF source = SYNTHESIZE
         THEN <<"Refine the answer synthesis process for better accuracy.">>
    ELSE <<>>

\* lines 225-234: suggestions, appended to in the order of the sorted items
RECURSIVE SuggestionsOf(_)
SuggestionsOf(items) ==
    IF items = <<>> THEN <<>>
    ELSE SuggestionsOf(SubSeq(items, 1, Len(items) - 1)) \o Suggestion(Last(items).type)

SuggestUncertaintyReduction(uncertainty_sources) ==
    SuggestionsOf(SortedItems(uncertainty_sources))

\* suggest_uncertainty_reduction is called with the mapping the analysis
\* returned; the mapping itself is only read
CallSuggestUncertaintyReduction ==
    /\ a_pc = "done"
    /\ a_suggestions' = SuggestUncertaintyReduction(a_sources)
    /\ a_pc' = "suggested"
    /\ UNCHANGED <<a_steps, a_sources>>
    /\ UNCHANGED notAttr

AttrNext ==
    \/ CallAnalyzeUncertaintySources
    \/ CallSuggestUncertaintyReduction

\* The contributions of the entries, added up
ContributionSum(dict) == SumOf([j \in 1..Len(dict) |-> dict[j].contribution])

\* C20: for every list of executed steps, lists in which steps share a type
\* included, the contributions add up to 1 when the total uncertainty is
\* above 0, and are all 0 when it is 0.
C20_ContributionsSumToOne ==
    a_pc = "done" =>
        /\ TotalUncertainty(a_steps).num > 0 => ContributionSum(a_sources) = One
        /\ TotalUncertainty(a_steps) = Zero =>
               \A j \in 1..Len(a_sources) : a_sources[j].contribution = Zero

\* u_step / total of each of the steps of the type, added up
SharesOfType(detailed, type) ==
    LET ofType == SelectSeq(detailed, LAMBDA step : step.type = type)
    IN  SumOf([j \in 1..Len(ofType) |->
                   FDiv(ofType[j].uncertainty, TotalUncertainty(detailed))])

\* C27: when the total uncertainty is above 0, the entry of every type,
\* types that several steps share included, is the sum of the shares
\* u_step / total of all the steps of that type.
C27_EntryIsSumOfSharesOfType ==
    (a_pc = "done" /\ TotalUncertainty(a_steps).num > 0) =>
        \A j \in 1..Len(a_sources) :
            a_sources[j].contribution = SharesOfType(a_steps, a_sources[j].type)

\* C31: in every trace reason_with_uncertainty returns, whatever the
\* knowledge payload, the uncertainty of every executed step and the overall
\* uncertainty lie in [0, 1].
C31_ReturnedUncertaintiesInUnitInterval ==
    rw_pc = "done" =>
        /\ \A j \in 1..Len(rw_result.detailed) :
               /\ ~FLess(rw_result.detailed[j].uncertainty, Zero)
               /\ ~FLess(One, rw_result.detailed[j].uncertainty)
        /\ ~FLess(rw_result.overall, Zero)
        /\ ~FLess(One, rw_result.overall)

\* The facts handed to the pipeline carry uncertainties of the data model,
\* which lie in [0, 1]
FactsInUnitInterval ==
    \A i \in 1..Len(knowledge.facts) :
        ~FLess(knowledge.facts[i], Zero) /\ ~FLess(One, knowledge.facts[i])

EntryOfSuggestion(dict, text) ==
    CHOOSE j \in 1..Len(dict) :
        \/ text = "Clarify the query to reduce ambiguity."
              /\ dict[j].type = "interpret_query"
        \/ text = "Gather more relevant information to improve knowledge base."
              /\ dict[j].type = "analyze_knowledge"
        \/ text = "Refine the answer synthesis process for better accuracy."
              /\ dict[j].type = "synthesize_answer"

RemediatedEntries(dict) ==
    {j \in 1..Len(dict) :
        dict[j].type \in {"interpret_query", "analyze_knowledge", "synthesize_answer"}}

\* C21: the suggestions are one per entry of a known type, each the fixed
\* text of that type, in descending order of the entries' contributions;
\* entries of other types give none; the mapping is left as it was.
C21_SuggestionsByDescendingContribution ==
    /\ [](a_pc = "suggested" =>
            /\ Len(a_suggestions) = Cardinality(RemediatedEntries(a_sources))
            /\ {EntryOfSuggestion(a_sources, a_suggestions[i]) : i \in 1..Len(a_suggestions)}
                  = RemediatedEntries(a_sources)
            /\ \A i, j \in 1..Len(a_suggestions) :
                  i < j =>
                     ~FLess(a_sources[EntryOfSuggestion(a_sources, a_suggestions[i])].contribution,
                            a_sources[EntryOfSuggestion(a_sources, a_suggestions[j])].contribution))
    /\ [][a_pc = "done" => a_sources' = a_sources]_vars

C21_Witness ==
    /\ a_pc = "suggested"
    /\ Len(a_sources) = 3
    /\ a_sources[1].type = "interpret_query"
    /\ a_sources[2].type = "other_step"
    /\ a_sources[3].type = "synthesize_answer"
    /\ FLess(a_sources[1].contribution, a_sources[3].contribution)
    /\ a_suggestions = << "Refine the answer synthesis process for better accuracy.",
                          "Clarify the query to reduce ambiguity." >>

\* A scoring call that returned a score
ScorerCallWithScore == scoreCalls' = scoreCalls + 1 /\ bs_err' = None

Entities(list) == {list[i] : i \in 1..Len(list)}

\* C32: every path returned for max_depth d >= 1 starts at an initial
\* entity and has d + 1 entities; a path grows only by one entity that
\* get_neighbors returned for the entity it ended with; a depth that yields
\* no candidate leaves no beam, and from then on the result is empty: no
\* beam is returned shorter.
C32_ReturnedPathsAreWalks ==
    /\ [](bs_pc = "done" /\ max_depth >= 1 =>
             \A i \in 1..Len(bs_result) :
                 /\ bs_result[i].path[1] \in Entities(seeds)
                 /\ Len(bs_result[i].path) = max_depth + 1
                 /\ bs_result[i] \in Entities(candidates))
    /\ [][ScorerCallWithScore =>
             /\ nbrArg.entity = Last(beams[bi].path)
             /\ nbrs[ni] \in Entities(nbrs)
             /\ Last(candidates').path = Append(beams[bi].path, nbrs[ni])]_vars
    /\ [][nbrs' # nbrs \/ nbrArg' # nbrArg =>
             nbrCalls' = nbrCalls + 1 /\ nbrArg' = BeamLast(beams[bi])]_vars
    /\ [][depth' = depth + 1 /\ candidates = <<>> => beams' = <<>>]_vars
    /\ [][depth > 0 /\ beams = <<>> =>
             beams' = <<>> /\ (bs_pc' = "done" => bs_result' = <<>>)]_vars

C32_Witness ==
    /\ bs_pc = "done"
    /\ max_depth = 1
    /\ seeds = <<"X", "Y">>
    /\ nbrCalls = 2
    /\ nbrs = <<>>
    /\ bs_result = << TupleBeam(<<"X", "A">>, 7) >>

\* ------------------------------------------------------------------------
\* Failures of the graph store, in reason and in beam_search
\* ------------------------------------------------------------------------
\* An invocation of beam_search or of reason
StoreCallNext ==
    \/ BeamNext
    \/ QueryNext

\* A step in which a get_neighbors call was made and delivered no list
NeighborsCallWithoutList ==
    /\ bs_pc = "beam"
    /\ nbrCalls' = nbrCalls + 1
    /\ <<bi', ni'>> = <<bi, ni>>

\* C24: when a graph-store call fails (the query of reason, a get_neighbors
\* call of beam_search), the invocation ends with that error: nothing is
\* returned, not even a partial result, and nothing is tried again.
C24_StoreFailureSurfaced ==
    /\ [](bs_err = "StoreUnavailable" => bs_pc = "error" /\ bs_result = <<>>)
    /\ [](q_err = "StoreUnavailable" => q_pc = "error" /\ q_result = <<>>)
    /\ [][ /\ NeighborsCallWithoutList => bs_pc' = "error" /\ bs_err' = "StoreUnavailable"
           /\ bs_err = "StoreUnavailable" => UNCHANGED beamVars
           /\ q_err = "StoreUnavailable" => UNCHANGED queryVars ]_vars

C24_Witness ==
    /\ bs_pc = "error"
    /\ bs_err = "StoreUnavailable"
    /\ nbrCalls = 2
    /\ candidates # <<>>
    /\ bs_result = <<>>

\* ------------------------------------------------------------------------
\* Cancellation of an invocation (asyncio: the task is cancelled while it
\* is suspended in an await, and CancelledError is raised there)
\* ------------------------------------------------------------------------
\* beam_search is suspended in one of its awaits: get_initial_entities
\* (line 74), get_neighbors (line 80) or llm.score_path (line 83)
BeamSearchSuspended ==
    \/ bs_pc = "start"
    \/ bs_pc = "beam" /\ bi <= Len(beams)
    \/ bs_pc = "neighbor" /\ CanExtend(beams[bi])

\* Mutant of CancelBeamSearch: CancelledError is caught around the call and
\* the loops go on.
CancelBeamSearchIgnored ==
    /\ BeamSearchSuspended
    /\ bs_err = None
    /\ bs_err' = "CancelledError"
    /\ UNCHANGED notBeam
    /\ UNCHANGED <<bs_pc, beam_width, max_depth, seeds, beams, candidates, depth, bi,
                   nbrs, ni, nbrArg, nbrCalls, scoreCalls, bs_result>>

\* lines 74, 80, 83: the awaited call raises CancelledError, which nothing
\* in beam_search catches; the call itself was made and delivers nothing
CancelBeamSearch ==
    /\ BeamSearchSuspended
    /\ bs_err = None
    /\ bs_pc' = "cancelled"
    /\ bs_err' = "CancelledError"
    /\ nbrArg' = IF bs_pc = "beam" THEN BeamLast(beams[bi]) ELSE nbrArg
    /\ nbrCalls' = IF bs_pc = "beam" THEN nbrCalls + 1 ELSE nbrCalls
    /\ scoreCalls' = IF bs_pc = "neighbor" THEN scoreCalls + 1 ELSE scoreCalls
    /\ UNCHANGED notBeam
    /\ UNCHANGED <<beam_width, max_depth, seeds, beams, candidates, depth, bi,
                   nbrs, ni, bs_result>>

\* lines 187-188: _execute_reasoning_step awaits nothing, so once the body
\* of reason_with_uncertainty runs it is never suspended: a cancellation can
\* only reach it before its first step, and then no line of it runs
CancelReasonWithUncertainty ==
    /\ rw_pc = "planning"
    /\ rw_pc' = "cancelled"
    /\ rw_err' = "CancelledError"
    /\ UNCHANGED <<knowledge, steps, step_i, reasoning_steps, uncertainties,
                   detailed_steps, rw_result>>
    /\ UNCHANGED notPipe

CancelNext ==
    \/ BeamNext
    \/ PipeNext
    \/ CancelBeamSearch
    \/ CancelReasonWithUncertainty

Priorities == <<"LOW", "MEDIUM", "HIGH">>

PrioritySet == {Priorities[i] : i \in 1..Len(Priorities)}

\* reversed(list)
Reversed(list) == [i \in 1..Len(list) |-> list[Len(list) + 1 - i]]

\* Mutant of DequeueOrder: reversed() forgotten, LOW is looked at first.
DequeueOrderUnreversed == Priorities

\* line 33: for priority in reversed(list(Priority))
DequeueOrder == Reversed(Priorities)

\* line 51: for priority in reversed(list(Priority))
ListingOrder == Reversed(Priorities)

\* A message: the n-th one enqueued, with its priority
Message(n, priority) == [id |-> n, priority |-> priority]

\* None, where a message may be returned
NoMessage == [id |-> 0, priority |-> None]

\* The dict of get_queue_stats
QueueStats(high, medium, low, total, total_processed) ==
    [high_priority |-> high, medium_priority |-> medium, low_priority |-> low,
     total |-> total, total_processed |-> total_processed]

NoStats == QueueStats(0, 0, 0, 0, 0)

Returned(op, message, messages) ==
    [op |-> op, message |-> message, messages |-> messages, stats |-> NoStats]

\* lines 10-24
QueueInit ==
    /\ mq_queues = [priority \in PrioritySet |-> <<>>]
    /\ mq_processed = 0
    /\ mq_by_priority = [priority \in PrioritySet |-> 0]
    /\ last_processed = 0
    /\ mq_sent = 0
    /\ mq_ret = Returned("none", NoMessage, <<>>)

\* lines 26-29
Enqueue ==
    /\ mq_sent < MaxMessages
    /\ \E priority \in PrioritySet :
         LET message == Message(mq_sent + 1, priority)
         IN  /\ mq_queues' = [mq_queues EXCEPT ![priority] = Append(@, message)]
             /\ mq_by_priority' = [mq_by_priority EXCEPT ![priority] = @ + 1]
             /\ mq_ret' = Returned("enqueue", NoMessage, <<>>)
    /\ mq_sent' = mq_sent + 1
    /\ UNCHANGED <<mq_processed, last_processed>>
    /\ UNCHANGED notQueue

\* lines 33-34: the first priority of the order whose deque is not empty,
\* None when every deque is empty
RECURSIVE FirstNonEmpty(_, _)
FirstNonEmpty(queues, order) ==
    IF order = <<>> THEN None
    ELSE IF queues[Head(order)] # <<>> THEN Head(order)
    ELSE FirstNonEmpty(queues, Tail(order))

\* Mutant of Dequeue: the call is counted before the deques are looked at,
\* a call that finds them empty included.
DequeueCountingEveryCall ==
    LET priority == FirstNonEmpty(mq_queues, DequeueOrder)
    IN  /\ mq_processed' = mq_processed + 1
        /\ IF priority # None
           THEN /\ \E now \in last_processed..MaxTime : last_processed' = now
                /\ mq_ret' = Returned("dequeue", Head(mq_queues[priority]), <<>>)
                /\ mq_queues' = [mq_queues EXCEPT ![priority] = Tail(@)]
           ELSE /\ mq_ret' = Returned("dequeue", NoMessage, <<>>)
                /\ UNCHANGED <<mq_queues, last_processed>>
        /\ UNCHANGED <<mq_by_priority, mq_sent>>
        /\ UNCHANGED notQueue

\* lines 31-38; datetime.now() is a time not before the one kept
Dequeue ==
    LET priority == FirstNonEmpty(mq_queues, DequeueOrder)
    IN  /\ IF priority # None
           THEN /\ \E now \in last_processed..MaxTime : last_processed' = now
                /\ mq_processed' = mq_processed + 1
                /\ mq_ret' = Returned("dequeue", Head(mq_queues[priority]), <<>>)
                /\ mq_queues' = [mq_queues EXCEPT ![priority] = Tail(@)]
           ELSE /\ mq_ret' = Returned("dequeue", NoMessage, <<>>)
                /\ UNCHANGED <<mq_queues, mq_processed, last_processed>>
        /\ UNCHANGED <<mq_by_priority, mq_sent>>
        /\ UNCHANGED notQueue

\* lines 48-54 (with get_messages_by_priority, lines 44-46)
RECURSIVE AllMessages(_, _)
AllMessages(queues, order) ==
    IF order = <<>> THEN <<>>
    ELSE queues[Head(order)] \o AllMessages(queues, Tail(order))

GetAllMessages ==
    /\ mq_ret' = Returned("get_all_messages", NoMessage, AllMessages(mq_queues, ListingOrder))
    /\ UNCHANGED <<mq_queues, mq_processed, mq_by_priority, last_processed, mq_sent>>
    /\ UNCHANGED notQueue

\* sum(len(queue) for queue in self._queues.values()), in the dict's order
RECURSIVE TotalLength(_, _)
TotalLength(queues, order) ==
    IF order = <<>> THEN 0
    ELSE Len(queues[Head(order)]) + TotalLength(queues, Tail(order))

\* lines 56-64
GetQueueStats ==
    /\ mq_ret' = [Returned("get_queue_stats", NoMessage, <<>>) EXCEPT
                     !.stats = QueueStats(Len(mq_queues["HIGH"]),
                                          Len(mq_queues["MEDIUM"]),
                                          Len(mq_queues["LOW"]),
                                          TotalLength(mq_queues, Priorities),
                                          mq_processed)]
    /\ UNCHANGED <<mq_queues, mq_processed, mq_by_priority, last_processed, mq_sent>>
    /\ UNCHANGED notQueue

QueueNext ==
    \/ Enqueue
    \/ Dequeue
    \/ GetAllMessages
    \/ GetQueueStats

\* The messages queued, whatever their priority
Queued(queues) ==
    UNION { {queues[priority][i] : i \in 1..Len(queues[priority])} : priority \in PrioritySet }

\* HIGH before MEDIUM before LOW, and the earlier enqueued first among equals
GoesBefore(x, y) ==
    LET level(m) == CASE m.priority = "HIGH" -> 3
                      [] m.priority = "MEDIUM" -> 2
                      [] m.priority = "LOW" -> 1
    IN  \/ level(x) > level(y)
        \/ level(x) = level(y) /\ x.id < y.id

\* C26: dequeue returns a message of the highest priority that has a queued
\* message, the one of them that was enqueued first, and removes only it;
\* get_all_messages lists every queued message in that same order and
\* removes none.
C26_DequeueByPriorityThenFifo ==
    /\ [][mq_processed' = mq_processed + 1 =>
             /\ mq_ret'.op = "dequeue"
             /\ mq_ret'.message \in Queued(mq_queues)
             /\ \A other \in Queued(mq_queues) \ {mq_ret'.message} :
                    GoesBefore(mq_ret'.message, other)
             /\ Queued(mq_queues') = Queued(mq_queues) \ {mq_ret'.message}]_vars
    /\ [][(mq_ret'.op = "dequeue" /\ Queued(mq_queues) # {}) =>
             mq_processed' = mq_processed + 1]_vars
    /\ [][mq_ret'.op = "get_all_messages" =>
             /\ mq_queues' = mq_queues
             /\ Len(mq_ret'.messages) = Cardinality(Queued(mq_queues))
             /\ {mq_ret'.messages[i] : i \in 1..Len(mq_ret'.messages)} = Queued(mq_queues)
             /\ \A i, j \in 1..Len(mq_ret'.messages) :
                    i < j => GoesBefore(mq_ret'.messages[i], mq_ret'.messages[j])]_vars

C26_Witness ==
    /\ mq_ret.op = "dequeue"
    /\ mq_ret.message = Message(2, "HIGH")
    /\ mq_queues["LOW"] = <<Message(1, "LOW")>>
    /\ mq_queues["HIGH"] = <<Message(3, "HIGH")>>

\* C35: the total that get_queue_stats reports is the number of messages
\* enqueued minus the number of dequeue calls that returned a message and
\* is the sum of the three lengths it reports; total_processed is that
\* number of dequeue calls; a dequeue call returns None exactly when every
\* deque is empty, and then changes neither the deques nor the counters.
C35_StatsMatchEnqueuesAndDequeues ==
    /\ [](mq_ret.op = "get_queue_stats" =>
             /\ mq_ret.stats.total = Cardinality(Queued(mq_queues))
             /\ mq_ret.stats.total = mq_ret.stats.high_priority
                                        + mq_ret.stats.medium_priority
                                        + mq_ret.stats.low_priority
             /\ mq_ret.stats.total_processed = mq_sent - Cardinality(Queued(mq_queues))
             /\ mq_ret.stats.total = mq_sent - mq_ret.stats.total_processed)
    /\ [](mq_processed = mq_sent - Cardinality(Queued(mq_queues)))
    /\ [][mq_ret'.op = "dequeue" /\ mq_ret'.message # NoMessage /\ mq_ret' # mq_ret =>
             /\ mq_processed' = mq_processed + 1
             /\ Cardinality(Queued(mq_queues')) = Cardinality(Queued(mq_queues)) - 1]_vars
    /\ [][mq_sent' = mq_sent + 1 =>
             /\ mq_processed' = mq_processed
             /\ Cardinality(Queued(mq_queues')) = Cardinality(Queued(mq_queues)) + 1]_vars
    /\ [][mq_ret'.op = "dequeue" =>
             /\ mq_ret'.message = NoMessage <=> Queued(mq_queues) = {}
             /\ mq_ret'.message = NoMessage =>
                    /\ mq_queues' = mq_queues
                    /\ mq_processed' = mq_processed
                    /\ mq_by_priority' = mq_by_priority]_vars

C35_Witness ==
    /\ mq_ret.op = "get_queue_stats"
    /\ mq_sent = 3
    /\ mq_ret.stats = QueueStats(1, 0, 1, 2, 1)

\* ------------------------------------------------------------------------
\* AdaptiveErrorController
\* ------------------------------------------------------------------------
\* type(error).__name__ of the errors handed to handle_error
ErrorTypes == {"ValueError", "KeyError"}

\* str(error)
ErrorMessages == {"m1", "m2"}

\* The context argument
Contexts == {"c1"}

\* self.error_count.get(error_type, 0)
CountOf(counts, error_type) ==
    IF error_type \in DOMAIN counts THEN counts[error_type] ELSE 0

\* self.error_count[error_type] = count
WithCount(counts, error_type, count) ==
    [t \in DOMAIN counts \cup {error_type} |->
        IF t = error_type THEN count ELSE counts[t]]

\* Mutant of SeenTooOften: >= in place of >, the third error changes the
\* approach.
SeenTooOftenFromThird(count) == count >= 3

\* line 13: self.error_count[error_type] > 3
SeenTooOften(count) == count > 3

\* lines 20-26; the key new_approach is absent
BasicErrorHandling(error_type, message, context) ==
    [op |-> "handle_error", error_type |-> error_type, error_message |-> message,
     context |-> context, action |-> "retry", new_approach |-> None]

\* lines 28-37
AdvancedErrorHandling(error_type, message, context) ==
    [op |-> "handle_error", error_type |-> error_type, error_message |-> message,
     context |-> context, action |-> "change_approach",
     new_approach |-> "Use a different model or technique"]

\* What a call that is not handle_error leaves in ec_ret
NoAnswer(op) ==
    [op |-> op, error_type |-> None, error_message |-> None, context |-> None,
     action |-> None, new_approach |-> None]

\* lines 5-7
ErrInit ==
    /\ error_count = <<>>
    /\ ec_handled = [t \in ErrorTypes |-> 0]
    /\ ec_resets = 0
    /\ ec_ret = NoAnswer("none")

\* lines 9-18
HandleError ==
    /\ \E error_type \in ErrorTypes, message \in ErrorMessages, context \in Contexts :
         /\ ec_handled[error_type] < MaxErrors
         /\ error_count' = WithCount(error_count, error_type,
                                     CountOf(error_count, error_type) + 1)
         /\ ec_ret' = IF SeenTooOften(error_count'[error_type])
                      THEN AdvancedErrorHandling(error_type, message, context)
                      ELSE BasicErrorHandling(error_type, message, context)
         /\ ec_handled' = [ec_handled EXCEPT ![error_type] = @ + 1]
    /\ UNCHANGED ec_resets
    /\ UNCHANGED notErr

\* lines 39-40
Reset ==
    /\ ec_resets < MaxResets
    /\ error_count' = <<>>
    /\ ec_handled' = [t \in ErrorTypes |-> 0]
    /\ ec_resets' = ec_resets + 1
    /\ ec_ret' = NoAnswer("reset")
    /\ UNCHANGED notErr

ErrNext ==
    \/ HandleError
    \/ Reset

\* C33: handle_error answers "retry" for the first three errors of an
\* exception type since the controller was built or last reset and
\* "change_approach" for every later one, whatever errors of other types
\* were handled in between; a call for one type leaves the counts of the
\* other types alone, and reset leaves no count.
C33_RetryThriceThenChangeApproach ==
    /\ [](ec_ret.op = "handle_error" =>
             /\ ec_ret.action = IF ec_handled[ec_ret.error_type] <= 3
                                THEN "retry" ELSE "change_approach"
             /\ ec_handled[ec_ret.error_type] >= 1)
    /\ [][ec_ret'.op = "handle_error" /\ ec_handled' # ec_handled =>
             \A t \in ErrorTypes \ {ec_ret'.error_type} :
                 CountOf(error_count', t) = CountOf(error_count, t)]_vars
    /\ [][ec_resets' = ec_resets + 1 =>
             \A t \in ErrorTypes : CountOf(error_count', t) = 0]_vars

C33_Witness ==
    /\ ec_resets = 1
    /\ ec_ret.op = "handle_error"
    /\ ec_ret.error_type = "KeyError"
    /\ ec_ret.action = "change_approach"
    /\ ec_handled = [t \in ErrorTypes |-> IF t = "KeyError" THEN 4 ELSE 2]

\* ------------------------------------------------------------------------
\* TaskExecutor.execute_task
\* ------------------------------------------------------------------------
\* The agent's layers and _is_complex_task (a stub) are capabilities: each
\* call of one returns or raises an Exception.

\* A result: {"error": str(e)} with the stage whose exception e is, or the
\* value a stage returned (summarize_results with its subgoal_results)
ErrorResult(by) == [error |-> TRUE, by |-> by, subgoal_results |-> <<>>]
ValueResult(by, subgoal_results) ==
    [error |-> FALSE, by |-> by, subgoal_results |-> subgoal_results]
NoResult == ValueResult(None, <<>>)

\* One execute_task call: its position, the stages it has started, the
\* first stage that failed in it, the subgoals not yet executed, the
\* results of those executed, and the local `result`
Frame(pc, ran, failed, left, results, result) ==
    [pc |-> pc, ran |-> ran, failed |-> failed, left |-> left, results |-> results,
     result |-> result]

NewFrame == Frame("foundational_layer", <<>>, None, 0, <<>>, NoResult)
NoFrame == Frame("none", <<>>, None, 0, <<>>, NoResult)

Top == te_stack[Len(te_stack)]

\* The innermost call goes on as frame
Continue(frame) ==
    /\ te_stack' = [te_stack EXCEPT ![Len(te_stack)] = frame]
    /\ UNCHANGED <<te_pc, te_last, te_result>>

\* The stage is started
Ran(frame, stage) == [frame EXCEPT !.ran = Append(@, stage)]

\* The innermost call returns frame.result: to line 58-59 of the call that
\* awaits it, or to the caller of the outermost call
Finish(frame) ==
    /\ te_last' = frame
    /\ IF Len(te_stack) > 1
       THEN LET parent == te_stack[Len(te_stack) - 1]
            IN  /\ te_stack' = Append(SubSeq(te_stack, 1, Len(te_stack) - 2),
                                      [parent EXCEPT !.results = Append(@, frame.result),
                                                     !.left = @ - 1,
                                                     !.pc = "subtasks"])
                /\ UNCHANGED <<te_pc, te_result>>
       ELSE /\ te_stack' = <<>>
            /\ te_pc' = "done"
            /\ te_result' = frame.result

\* lines 44-46: except Exception as e: return {"error": str(e)}
Caught(frame, stage) ==
    Finish([frame EXCEPT !.failed = IF @ = None THEN stage ELSE @,
                         !.result = ErrorResult(stage),
                         !.pc = "returned"])

ExecInit ==
    /\ te_pc = "running"
    /\ te_stack = <<NewFrame>>
    /\ te_last = NoFrame
    /\ te_result = NoResult

\* line 13
ProcessTask ==
    /\ te_pc = "running"
    /\ Top.pc = "foundational_layer"
    /\ LET frame == Ran(Top, "foundational_layer")
       IN  \/ Continue([frame EXCEPT !.pc = "query_processing"])
           \/ Caught(frame, "foundational_layer")
    /\ UNCHANGED notExec

\* lines 16-17
ProcessQuery ==
    /\ te_pc = "running"
    /\ Top.pc = "query_processing"
    /\ LET frame == Ran(Top, "query_processing")
       IN  \/ Continue([frame EXCEPT !.pc = "handler"])
           \/ Caught(frame, "query_processing")
    /\ UNCHANGED notExec

\* line 20: await self._is_complex_task(task)
IsComplexTask ==
    /\ te_pc = "running"
    /\ Top.pc = "handler"
    /\ LET frame == Ran(Top, "handler")
       IN  \/ /\ Len(te_stack) <= MaxNesting
              /\ Continue([frame EXCEPT !.pc = "generate_subgoals"])
           \/ Continue([frame EXCEPT !.pc = "dispatch"])
           \/ Caught(frame, "handler")
    /\ UNCHANGED notExec

\* lines 24-31: handle_<type> when the type is a research capability with a
\* handler, self.agent.execute_task otherwise
Dispatch ==
    /\ te_pc = "running"
    /\ Top.pc = "dispatch"
    /\ \/ \E research, handler \in BOOLEAN :
            Continue([Top EXCEPT !.pc = "self_consistency",
                                 !.result = ValueResult(IF research /\ handler
                                                        THEN "handle_type"
                                                        ELSE "agent.execute_task", <<>>)])
       \/ Caught(Top, "handler")
    /\ UNCHANGED notExec

\* line 54 with lines 66-78: the subgoals, none when generating them raised
GenerateSubgoals ==
    /\ te_pc = "running"
    /\ Top.pc = "generate_subgoals"
    /\ \E n \in 0..MaxSubgoals :
         Continue([Top EXCEPT !.pc = "subtasks", !.left = n, !.results = <<>>])
    /\ UNCHANGED notExec

\* lines 56-58: subtask_result = await self.execute_task(subtask)
ExecuteSubtask ==
    /\ te_pc = "running"
    /\ Top.pc = "subtasks"
    /\ Top.left > 0
    /\ te_stack' = Append([te_stack EXCEPT ![Len(te_stack)].pc = "awaiting"], NewFrame)
    /\ UNCHANGED <<te_pc, te_last, te_result>>
    /\ UNCHANGED notExec

\* lines 60-64 with 80-88: the summary, or {"error": str(e)} as the result
\* of _execute_with_subgoals; execute_task goes on at line 34 with either
SummarizeResults ==
    /\ te_pc = "running"
    /\ Top.pc = "subtasks"
    /\ Top.left = 0
    /\ \/ Continue([Top EXCEPT !.pc = "self_consistency",
                               !.result = ValueResult("summarize_results", Top.results)])
       \/ Continue([Top EXCEPT !.pc = "self_consistency",
                               !.failed = "handler",
                               !.result = ErrorResult("summarize_results")])
    /\ UNCHANGED notExec

\* line 34: result = await self.agent.apply_self_consistency(task, result);
\* the agent returns the result it was given or another one
ApplySelfConsistency ==
    /\ te_pc = "running"
    /\ Top.pc = "self_consistency"
    /\ LET frame == Ran(Top, "self_consistency")
       IN  \/ \E result \in {frame.result, ValueResult("apply_self_consistency", <<>>)} :
                Continue([frame EXCEPT !.pc = "cognitive_nexus", !.result = result])
           \/ Caught(frame, "self_consistency")
    /\ UNCHANGED notExec

\* line 37
UpdateCognitiveNexus ==
    /\ te_pc = "running"
    /\ Top.pc = "cognitive_nexus"
    /\ LET frame == Ran(Top, "cognitive_nexus")
       IN  \/ Continue([frame EXCEPT !.pc = "continuous_learning"])
           \/ Caught(frame, "cognitive_nexus")
    /\ UNCHANGED notExec

\* lines 40-43
UpdateContinuousLearning ==
    /\ te_pc = "running"
    /\ Top.pc = "continuous_learning"
    /\ LET frame == Ran(Top, "continuous_learning")
       IN  \/ Finish([frame EXCEPT !.pc = "returned"])
           \/ Caught(frame, "continuous_learning")
    /\ UNCHANGED notExec

ExecNext ==
    \/ ProcessTask
    \/ ProcessQuery
    \/ IsComplexTask
    \/ Dispatch
    \/ GenerateSubgoals
    \/ ExecuteSubtask
    \/ SummarizeResults
    \/ ApplySelfConsistency
    \/ UpdateCognitiveNexus
    \/ UpdateContinuousLearning

\* The stages in the order of execute_task
StageOrder ==
    <<"foundational_layer", "query_processing", "handler", "self_consistency",
      "cognitive_nexus", "continuous_learning">>

StagePlace(stage) == CHOOSE i \in 1..Len(StageOrder) : StageOrder[i] = stage

\* C34: every execute_task call, nested ones included, ends by returning;
\* when a stage failed in it, what it returns is {"error": message} and the
\* failing stage is the last one it ran; the stages it ran are in the fixed
\* order.
C34_ErrorResultAndNoLaterStage ==
    te_last # NoFrame =>
        /\ te_last.pc = "returned"
        /\ te_last.failed # None =>
               /\ te_last.result.error
               /\ te_last.ran # <<>>
               /\ te_last.ran[Len(te_last.ran)] = te_last.failed
        /\ \A i, j \in 1..Len(te_last.ran) :
               i < j => StagePlace(te_last.ran[i]) < StagePlace(te_last.ran[j])

\* ------------------------------------------------------------------------
\* Idle components and the specifications
\* ------------------------------------------------------------------------
QueryIdle ==
    /\ q_pc = "idle"
    /\ retrieved_info = <<>>
    /\ activated_knowledge = <<>>
    /\ store = <<>>
    /\ nodeScore = <<>>
    /\ q_timestamp = NoTimestamp
    /\ q_k = 0
    /\ q_result = <<>>
    /\ q_err = None

CausalIdle ==
    /\ causal_edges = <<>>
    /\ lastObs = [key |-> <<"A", "B">>, p |-> 0, before |-> <<>>]
    /\ nObs = 0

BeamIdle ==
    /\ bs_pc = "idle"
    /\ beam_width = 1
    /\ max_depth = 0
    /\ seeds = <<>>
    /\ beams = <<>>
    /\ candidates = <<>>
    /\ depth = 0
    /\ bi = 0
    /\ nbrs = <<>>
    /\ ni = 0
    /\ nbrArg = [entity |-> None, score |-> NoScore]
    /\ nbrCalls = 0
    /\ scoreCalls = 0
    /\ bs_result = <<>>
    /\ bs_err = None

TaskIdle ==
    /\ tk_pc = <<>>
    /\ tk_arg = <<>>
    /\ tk_before = <<>>

PropIdle ==
    /\ p_pc = "idle"
    /\ p_in = <<>>
    /\ p_out = Zero

PipeIdle ==
    /\ rw_pc = "idle"
    /\ knowledge = EmptyContent
    /\ steps = <<>>
    /\ step_i = 0
    /\ reasoning_steps = <<>>
    /\ uncertainties = <<>>
    /\ detailed_steps = <<>>
    /\ rw_result = NotReturned
    /\ rw_err = None

AttrIdle ==
    /\ a_pc = "idle"
    /\ a_steps = <<>>
    /\ a_sources = <<>>
    /\ a_suggestions = <<>>

QueueIdle ==
    /\ mq_queues = <<>>
    /\ mq_processed = 0
    /\ mq_by_priority = <<>>
    /\ last_processed = 0
    /\ mq_sent = 0
    /\ mq_ret = Returned("none", NoMessage, <<>>)

ErrIdle ==
    /\ error_count = <<>>
    /\ ec_handled = <<>>
    /\ ec_resets = 0
    /\ ec_ret = NoAnswer("none")

ExecIdle ==
    /\ te_pc = "idle"
    /\ te_stack = <<>>
    /\ te_last = NoFrame
    /\ te_result = NoResult

BeamSpecInit ==
    BeamInit /\ QueryIdle /\ CausalIdle /\ TaskIdle /\ PropIdle /\ PipeIdle /\ AttrIdle /\ QueueIdle /\ ErrIdle /\ ExecIdle

BeamSpec == BeamSpecInit /\ [][BeamNext]_vars

QuerySpecInit ==
    QueryInit /\ BeamIdle /\ CausalIdle /\ TaskIdle /\ PropIdle /\ PipeIdle /\ AttrIdle /\ QueueIdle /\ ErrIdle /\ ExecIdle

QuerySpec == QuerySpecInit /\ [][QueryNext]_vars

ReasonCallSpecInit ==
    ReasonCallInit /\ BeamIdle /\ CausalIdle /\ TaskIdle /\ PropIdle /\ PipeIdle /\ AttrIdle /\ QueueIdle /\ ErrIdle /\ ExecIdle

ReasonCallSpec == ReasonCallSpecInit /\ [][QueryNext]_vars

\* One invocation, of beam_search or of reason
StoreCallSpecInit ==
    /\ CausalIdle /\ TaskIdle /\ PropIdle /\ PipeIdle /\ AttrIdle /\ QueueIdle /\ ErrIdle /\ ExecIdle
    /\ \/ BeamInit /\ QueryIdle
       \/ QueryInit /\ BeamIdle

StoreCallSpec == StoreCallSpecInit /\ [][StoreCallNext]_vars

\* One invocation, of beam_search or of reason_with_uncertainty, that may be
\* cancelled
CancelSpecInit ==
    /\ QueryIdle /\ CausalIdle /\ TaskIdle /\ PropIdle /\ AttrIdle /\ QueueIdle /\ ErrIdle /\ ExecIdle
    /\ \/ BeamInit /\ PipeIdle
       \/ PipeInit /\ BeamIdle

CancelSpec == CancelSpecInit /\ [][CancelNext]_vars

QueueSpecInit ==
    QueueInit /\ BeamIdle /\ QueryIdle /\ CausalIdle /\ TaskIdle /\ PropIdle /\ PipeIdle
        /\ AttrIdle /\ ErrIdle /\ ExecIdle

QueueSpec == QueueSpecInit /\ [][QueueNext]_vars

CausalSpecInit ==
    CausalInit /\ BeamIdle /\ QueryIdle /\ TaskIdle /\ PropIdle /\ PipeIdle /\ AttrIdle /\ QueueIdle /\ ErrIdle /\ ExecIdle

CausalSpec == CausalSpecInit /\ [][CausalNext]_vars

TaskSpecInit ==
    TaskInit /\ BeamIdle /\ QueryIdle /\ PropIdle /\ PipeIdle /\ AttrIdle /\ QueueIdle /\ ErrIdle /\ ExecIdle

TaskSpec == TaskSpecInit /\ [][TaskNext]_vars

PropSpecInit ==
    PropInit /\ BeamIdle /\ QueryIdle /\ CausalIdle /\ TaskIdle /\ PipeIdle /\ AttrIdle /\ QueueIdle /\ ErrIdle /\ ExecIdle

PropSpec == PropSpecInit /\ [][PropNext]_vars

PipeSpecInit ==
    PipeInit /\ BeamIdle /\ QueryIdle /\ CausalIdle /\ TaskIdle /\ PropIdle /\ AttrIdle /\ QueueIdle /\ ErrIdle /\ ExecIdle

PipeSpec == PipeSpecInit /\ [][PipeNext]_vars

\* An awaited coroutine is run by the event loop until it returns or raises
PipeFairSpec == PipeSpecInit /\ [][PipeNext]_vars /\ WF_vars(PipeNext)

StepListSpecInit ==
    StepListInit /\ BeamIdle /\ QueryIdle /\ CausalIdle /\ TaskIdle /\ PropIdle /\ AttrIdle /\ QueueIdle /\ ErrIdle /\ ExecIdle

StepListSpec == StepListSpecInit /\ [][StepListNext]_vars

AttrSpecInit ==
    AttrInit /\ BeamIdle /\ QueryIdle /\ CausalIdle /\ TaskIdle /\ PropIdle /\ PipeIdle
        /\ QueueIdle /\ ErrIdle /\ ExecIdle

AttrSpec == AttrSpecInit /\ [][AttrNext]_vars

TraceSpecInit ==
    StepListInit /\ BeamIdle /\ QueryIdle /\ CausalIdle /\ TaskIdle /\ PropIdle /\ AttrIdle
        /\ QueueIdle /\ ErrIdle /\ ExecIdle

TraceSpec == TraceSpecInit /\ [][TraceNext]_vars

ErrSpecInit ==
    ErrInit /\ BeamIdle /\ QueryIdle /\ CausalIdle /\ TaskIdle /\ PropIdle /\ PipeIdle
        /\ AttrIdle /\ QueueIdle /\ ExecIdle

ErrSpec == ErrSpecInit /\ [][ErrNext]_vars

ExecSpecInit ==
    ExecInit /\ BeamIdle /\ QueryIdle /\ CausalIdle /\ TaskIdle /\ PropIdle /\ PipeIdle
        /\ AttrIdle /\ QueueIdle /\ ErrIdle

ExecSpec == ExecSpecInit /\ [][ExecNext]_vars

=============================================================================
